---- MODULE Spec2Model ----
(***************************************************************************)
(* W-DLRA: the observable thinking-geometry builder                        *)
(* (W-DLRA/00_CORE/thinking_geometry, geometry_viewer), the flight         *)
(* controller (flight_controller) and the resonant manifold engine         *)
(* (W-DLRA/00_CORE/manifold_engine).                                       *)
(*                                                                         *)
(* Text is a sequence of one-character strings.  The regular expressions   *)
(* of the source are modelled by scanners over such sequences; the graph   *)
(* builder is a state machine with one action per node/edge-producing step *)
(* of build_thinking_geometry.  Ratios are kept exact: a similarity is the *)
(* pair <<|A /\ B|, |A \/ B|>>, an edge weight is in thousandths and a      *)
(* metric in ten-thousandths (round() to 3 resp. 4 decimals).              *)
(***************************************************************************)
EXTENDS Integers, Sequences, FiniteSets, TLC

VARIABLES
    mode,            \* which entry point this run exercises
    pc,              \* position inside the entry point
    trace,           \* ObservableTrace: [prompt, response, events_count]
    sentences,       \* build_thinking_geometry: local `sentences`
    clauses,         \* local `clauses` of the sentence being visited
    phrases,         \* _extract_keyphrases(clause) of the clause being visited
    s_idx, c_idx, p_idx,   \* loop indices (0-based, as enumerate() gives them)
    s_id, c_id,      \* ids returned by add_node for the current sentence / clause
    nodes, edges,    \* the graph's node and edge lists
    clause_records,  \* local `clause_records`
    i, j,            \* indices of the relation loops
    metrics,         \* result of compute_metrics (<<>> until computed)
    text,            \* argument of the pure function under check
    limit,           \* argument `limit` of _extract_keyphrases
    result,          \* value returned by the pure function under check
    input_path,      \* generate_geometry / load_trace: the trace file [exists, suffix, content]
    loaded,          \* what load_trace did: [raised, trace]
    output_dir,      \* generate_geometry: the output directory [exists, files]
    exit_code,       \* geometry_viewer.main: its return value
    runs,            \* the (trace, graph, metrics) of the completed builder calls
    once,            \* run_loop: argument `once`
    max_iterations,  \* run_loop: argument `max_iterations` (0 stands for None)
    iterations,      \* run_loop: local `iterations`
    files,           \* run_loop: local `files`, what is left of it
    stream, glitch_log, lift_protocols,   \* the three directories: name -> content
    reports,         \* the failure reports written into the glitch directory
    processed,       \* the dictionaries process_file returned, in order
    current,         \* process_file: its locals while a file is being processed
    history,         \* ResonantManifoldEngine.history
    evaluated        \* the last evaluate call: [state, raised]

\* the variables of thinking_geometry's builder and pure functions
corevars == << mode, pc, trace, sentences, clauses, phrases, s_idx, c_idx, p_idx,
               s_id, c_id, nodes, edges, clause_records, i, j, metrics,
               text, limit, result >>
\* the variables of load_trace, generate_geometry and geometry_viewer.main
viewervars == << input_path, loaded, output_dir, exit_code >>
\* the variables of flight_controller
flightvars == << once, max_iterations, iterations, files, stream, glitch_log,
                 lift_protocols, reports, processed, current >>
\* the variables of manifold_engine
enginevars == << history, evaluated >>
\* everything outside build_thinking_geometry and the pure functions
outside == << viewervars, runs, flightvars, enginevars >>

vars == << corevars, outside >>

(***************************************************************************)
(* Characters                                                              *)
(***************************************************************************)
UpperCase ==
    << "A", "B", "C", "D", "E", "F", "G", "H", "I", "J", "K", "L", "M",
       "N", "O", "P", "Q", "R", "S", "T", "U", "V", "W", "X", "Y", "Z" >>
LowerCase ==
    << "a", "b", "c", "d", "e", "f", "g", "h", "i", "j", "k", "l", "m",
       "n", "o", "p", "q", "r", "s", "t", "u", "v", "w", "x", "y", "z" >>
Digits == << "0", "1", "2", "3", "4", "5", "6", "7", "8", "9" >>

\* The characters of the model in code-point order (Python compares str by
\* code point): \t \n \r space ! ' ( ) , - . 0-9 : ; ? A-Z _ a-z
CodePoints ==
    << "\t", "\n", "\r", " ", "!", "'", "(", ")", ",", "-", "." >> \o Digits
    \o << ":", ";", "?" >> \o UpperCase \o << "_" >> \o LowerCase

Range(f) == { f[x] : x \in DOMAIN f }
UpperSet == Range(UpperCase)
LowerSet == Range(LowerCase)
DigitSet == Range(Digits)

IndexOf(seq, c) == CHOOSE k \in 1..Len(seq) : seq[k] = c
Ord(c) == IndexOf(CodePoints, c)

\* str.lower() on one character
LowerChar(c) == IF c \in UpperSet THEN LowerCase[IndexOf(UpperCase, c)] ELSE c
\* str.lower()
Lower(s) == [k \in 1..Len(s) |-> LowerChar(s[k])]

\* \s of the re module, and the characters str.strip() removes
WhiteSpace == { " ", "\t", "\n", "\r" }
\* \w of the re module: what \b is the boundary of
WordChars == UpperSet \cup LowerSet \cup DigitSet \cup {"_"}
IsWordChar(c) == c \in WordChars
\* [a-zA-Z0-9']
TokenChars == UpperSet \cup LowerSet \cup DigitSet \cup {"'"}
IsTokenChar(c) == c \in TokenChars

\* Python's < on str
RECURSIVE StrLessFrom(_, _, _)
StrLessFrom(a, b, k) ==
    IF k > Len(a) THEN k <= Len(b)
    ELSE IF k > Len(b) THEN FALSE
    ELSE IF a[k] # b[k] THEN Ord(a[k]) < Ord(b[k])
    ELSE StrLessFrom(a, b, k + 1)
StrLess(a, b) == StrLessFrom(a, b, 1)

\* s.strip(chars)
RECURSIVE FirstKept(_, _, _)
FirstKept(s, chars, k) ==
    IF k > Len(s) \/ s[k] \notin chars THEN k ELSE FirstKept(s, chars, k + 1)
RECURSIVE LastKept(_, _, _)
LastKept(s, chars, k) ==
    IF k < 1 \/ s[k] \notin chars THEN k ELSE LastKept(s, chars, k - 1)
StripChars(s, chars) ==
    SubSeq(s, FirstKept(s, chars, 1), LastKept(s, chars, Len(s)))
Strip(s) == StripChars(s, WhiteSpace)

(***************************************************************************)
(* STOPWORDS, NEGATIONS                                                    *)
(***************************************************************************)
STOPWORDS ==
    { <<"a">>, <<"a", "n">>, <<"a", "n", "d">>, <<"a", "r", "e">>, <<"a", "s">>, <<"a", "t">>,
      <<"b", "e">>, <<"b", "u", "t">>, <<"b", "y">>, <<"f", "o", "r">>, <<"f", "r", "o", "m">>,
      <<"h", "a", "s">>, <<"h", "e">>, <<"i">>, <<"i", "f">>, <<"i", "n">>, <<"i", "s">>,
      <<"i", "t">>, <<"i", "t", "s">>, <<"o", "f">>, <<"o", "n">>, <<"o", "r">>,
      <<"o", "u", "r">>, <<"s", "o">>, <<"t", "h", "a", "n">>, <<"t", "h", "a", "t">>,
      <<"t", "h", "e">>, <<"t", "h", "e", "i", "r">>, <<"t", "h", "e", "n">>,
      <<"t", "h", "e", "s", "e">>, <<"t", "h", "e", "y">>, <<"t", "h", "i", "s">>,
      <<"t", "h", "o", "s", "e">>, <<"t", "o">>, <<"w", "a", "s">>, <<"w", "e">>,
      <<"w", "e", "r", "e">>, <<"w", "i", "l", "l">>, <<"w", "i", "t", "h">>, <<"y", "o", "u">>,
      <<"y", "o", "u", "r">> }

NEGATIONS ==
    { <<"c", "a", "n", "'", "t">>, <<"c", "a", "n", "n", "o", "t">>, <<"n", "e", "v", "e", "r">>,
      <<"n", "o">>, <<"n", "o", "n", "e">>, <<"n", "o", "t">>,
      <<"w", "i", "t", "h", "o", "u", "t">>, <<"w", "o", "n", "'", "t">> }

(***************************************************************************)
(* _tokenize: re.findall(r"[a-zA-Z0-9']+", text.lower())                   *)
(***************************************************************************)
RECURSIVE RunEnd(_, _)
\* the first index >= k that is not a token character (greedy +)
RunEnd(s, k) == IF k <= Len(s) /\ IsTokenChar(s[k]) THEN RunEnd(s, k + 1) ELSE k

RECURSIVE FindAllTokens(_, _, _)
FindAllTokens(s, k, acc) ==
    IF k > Len(s) THEN acc
    ELSE IF IsTokenChar(s[k])
         THEN LET e == RunEnd(s, k)
              IN  FindAllTokens(s, e, Append(acc, SubSeq(s, k, e - 1)))
         ELSE FindAllTokens(s, k + 1, acc)

_tokenize(t) == FindAllTokens(Lower(t), 1, << >>)

(***************************************************************************)
(* _split_sentences: re.split(r"(?<=[.!?])\s+", text.strip()), then each   *)
(* chunk stripped and the empty ones dropped                               *)
(***************************************************************************)
SentenceTerminals == { ".", "!", "?" }

RECURSIVE SpaceRunEnd(_, _)
\* the first index >= k that is not whitespace (greedy \s+)
SpaceRunEnd(s, k) ==
    IF k <= Len(s) /\ s[k] \in WhiteSpace THEN SpaceRunEnd(s, k + 1) ELSE k

RECURSIVE SplitAfterTerminal(_, _, _, _)
\* re.split: `from` is where the chunk being collected starts, k the scan position
SplitAfterTerminal(s, from, k, acc) ==
    IF k > Len(s) THEN Append(acc, SubSeq(s, from, Len(s)))
    ELSE IF s[k] \in WhiteSpace /\ k > 1 /\ s[k - 1] \in SentenceTerminals
         THEN LET e == SpaceRunEnd(s, k)
              IN  SplitAfterTerminal(s, e, e, Append(acc, SubSeq(s, from, k - 1)))
         ELSE SplitAfterTerminal(s, from, k + 1, acc)

_split_sentences(t) ==
    LET chunks   == SplitAfterTerminal(Strip(t), 1, 1, << >>)
        stripped == [k \in 1..Len(chunks) |-> Strip(chunks[k])]
    IN  SelectSeq(stripped, LAMBDA c : c # << >>)

(***************************************************************************)
(* _split_clauses                                                          *)
(***************************************************************************)
CoarseSeparators == { ";", ",", ":", "(", ")" }
ClauseStripChars == { " ", "-", "\n", "\t" }
\* the alternatives of the conjunction pattern, in the order the regex tries them
Conjunctions ==
    << <<"a", "n", "d">>,
       <<"b", "u", "t">>,
       <<"b", "e", "c", "a", "u", "s", "e">>,
       <<"w", "h", "i", "l", "e">>,
       <<"a", "l", "t", "h", "o", "u", "g", "h">>,
       <<"h", "o", "w", "e", "v", "e", "r">> >>

RECURSIVE SplitOnChars(_, _, _, _, _)
\* re.split(r"[;,:()]", s)
SplitOnChars(s, seps, from, k, acc) ==
    IF k > Len(s) THEN Append(acc, SubSeq(s, from, Len(s)))
    ELSE IF s[k] \in seps
         THEN SplitOnChars(s, seps, k + 1, k + 1, Append(acc, SubSeq(s, from, k - 1)))
         ELSE SplitOnChars(s, seps, from, k + 1, acc)

\* \b between positions k-1 and k (1-based; position 0 and Len+1 are outside)
WordAt(s, k) == k >= 1 /\ k <= Len(s) /\ IsWordChar(s[k])
BoundaryBefore(s, k) == WordAt(s, k - 1) # WordAt(s, k)

\* the word w matches at k, case-insensitively, between two \b
MatchesWordAt(s, k, w) ==
    /\ k + Len(w) - 1 <= Len(s)
    /\ \A m \in 1..Len(w) : LowerChar(s[k + m - 1]) = w[m]
    /\ BoundaryBefore(s, k)
    /\ BoundaryBefore(s, k + Len(w))

\* length of the conjunction matched at k (first alternative that matches), 0 if none
ConjunctionAt(s, k) ==
    LET hits == { n \in 1..Len(Conjunctions) : MatchesWordAt(s, k, Conjunctions[n]) }
    IN  IF hits = {} THEN 0
        ELSE Len(Conjunctions[CHOOSE n \in hits : \A m \in hits : n <= m])

RECURSIVE SplitOnConjunctions(_, _, _, _)
\* re.split(r"\b(?:and|but|because|while|although|however)\b", s, flags=re.IGNORECASE)
SplitOnConjunctions(s, from, k, acc) ==
    IF k > Len(s) THEN Append(acc, SubSeq(s, from, Len(s)))
    ELSE LET n == ConjunctionAt(s, k)
         IN  IF n > 0
             THEN SplitOnConjunctions(s, k + n, k + n, Append(acc, SubSeq(s, from, k - 1)))
             ELSE SplitOnConjunctions(s, from, k + 1, acc)

\* the stripped non-empty subparts of one coarse part
ClausesOfPart(part) ==
    LET subparts == SplitOnConjunctions(part, 1, 1, << >>)
        stripped == [k \in 1..Len(subparts) |-> StripChars(subparts[k], ClauseStripChars)]
    IN  SelectSeq(stripped, LAMBDA c : c # << >>)

RECURSIVE ExtendAll(_, _, _)
\* clauses.extend(...) over the coarse parts, in order
ExtendAll(coarse, k, acc) ==
    IF k > Len(coarse) THEN acc
    ELSE ExtendAll(coarse, k + 1, acc \o ClausesOfPart(coarse[k]))

\* the list `clauses` before the `or` fallback
FoundClauses(sentence) ==
    ExtendAll(SplitOnChars(sentence, CoarseSeparators, 1, 1, << >>), 1, << >>)

\* `return clauses`, without the fallback to the whole sentence
_split_clausesNoFallback(sentence) == FoundClauses(sentence)

_split_clauses(sentence) ==
    LET found == FoundClauses(sentence)
    IN  IF found # << >> THEN found ELSE << Strip(sentence) >>

(***************************************************************************)
(* _extract_keyphrases                                                     *)
(***************************************************************************)
DefaultLimit == 3

\* Counter(tokens)[t]
CountOf(tokens, t) == Cardinality({ k \in 1..Len(tokens) : tokens[k] = t })

\* the sort key with the length ascending: (-count, len(token), token)
RanksBeforeShortFirst(tokens, a, b) ==
    \/ CountOf(tokens, a) > CountOf(tokens, b)
    \/ /\ CountOf(tokens, a) = CountOf(tokens, b)
       /\ Len(a) < Len(b)
    \/ /\ CountOf(tokens, a) = CountOf(tokens, b)
       /\ Len(a) = Len(b)
       /\ StrLess(a, b)

\* the sort key (-count, -len(token), token): a ranks before b
RanksBefore(tokens, a, b) ==
    \/ CountOf(tokens, a) > CountOf(tokens, b)
    \/ /\ CountOf(tokens, a) = CountOf(tokens, b)
       /\ Len(a) > Len(b)
    \/ /\ CountOf(tokens, a) = CountOf(tokens, b)
       /\ Len(a) = Len(b)
       /\ StrLess(a, b)

RECURSIVE SortedByRank(_, _)
\* sorted(counts.items(), key=...), the tokens only
SortedByRank(tokens, items) ==
    IF items = {} THEN << >>
    ELSE LET first == CHOOSE a \in items :
                          \A b \in items \ {a} : RanksBefore(tokens, a, b)
         IN  << first >> \o SortedByRank(tokens, items \ {first})

\* seq[:n] of Python, n of either sign
SliceTo(seq, n) ==
    IF n >= 0 THEN SubSeq(seq, 1, IF n < Len(seq) THEN n ELSE Len(seq))
    ELSE SubSeq(seq, 1, IF Len(seq) + n > 0 THEN Len(seq) + n ELSE 0)

\* [t for t in _tokenize(clause) if len(t) > 2 and t not in STOPWORDS]
KeyphraseTokens(clause) ==
    SelectSeq(_tokenize(clause), LAMBDA t : Len(t) > 2 /\ t \notin STOPWORDS)

_extract_keyphrases(clause, lim) ==
    LET tokens == KeyphraseTokens(clause)
    IN  IF tokens = << >> THEN << >>
        ELSE SliceTo(SortedByRank(tokens, Range(tokens)), lim)

(***************************************************************************)
(* _jaccard, as the exact ratio <<numerator, denominator>>                 *)
(***************************************************************************)
\* the union counted as len(a) + len(b)
_jaccardSummedUnion(a, b) ==
    IF a = {} \/ b = {} THEN << 0, 1 >>
    ELSE << Cardinality(a \cap b), Cardinality(a) + Cardinality(b) >>

_jaccard(a, b) ==
    IF a = {} \/ b = {} THEN << 0, 1 >>
    ELSE << Cardinality(a \cap b), Cardinality(a \cup b) >>

\* ratio >= p/100, for the two-decimal thresholds of the source
AtLeast(ratio, percent) == ratio[1] * 100 >= percent * ratio[2]

\* round(num/den, d) in units of 10^-d (scale = 10^d), ties to even
RoundRatio(num, den, scale) ==
    LET q == (num * scale) \div den
        r == (num * scale) % den
    IN  IF 2 * r < den THEN q
        ELSE IF 2 * r > den THEN q + 1
        ELSE IF q % 2 = 0 THEN q ELSE q + 1

\* max(n, 1)
AtLeastOne(n) == IF n > 1 THEN n ELSE 1

(***************************************************************************)
(* build_thinking_geometry: add_node / add_edge                            *)
(***************************************************************************)
\* f"n{k}" / f"e{k}": the prefix and the number printed after it
NodeId(k) == << "n", k >>
EdgeId(k) == << "e", k >>

\* add_node numbering from one: f"n{len(nodes) + 1}"
add_nodeFromOne(ns, fields) == Append(ns, [id |-> NodeId(Len(ns) + 1)] @@ fields)

\* nodes after add_node(...): the id is f"n{len(nodes)}"
add_node(ns, fields) == Append(ns, [id |-> NodeId(Len(ns))] @@ fields)

\* edges after add_edge(src, dst, relation, weight); weight in thousandths
add_edge(es, src, dst, relation, weight) ==
    Append(es, [id |-> EdgeId(Len(es)), source |-> src, target |-> dst,
                relation |-> relation, weight |-> weight])

StructuralClauseWeight == 800
StructuralPhraseWeight == 600

\* the thresholds of the relation cascade, in hundredths
RepeatsThreshold == 72
ContradictsThreshold == 22
ElaboratesThreshold == 14
SupportsThreshold == 26

\* {t for t in _tokenize(clause) if t not in STOPWORDS}
ClauseTokens(clause) == { t \in Range(_tokenize(clause)) : t \notin STOPWORDS }

\* any(n in c_tokens for n in NEGATIONS)
IsNegated(tokens) == \E n \in NEGATIONS : n \in tokens

\* the cascade with the supports branch tested before the elaborates branch
RelationOfSupportsFirst(left, right, overlap) ==
    IF overlap[1] <= 0 THEN "none"
    ELSE IF AtLeast(overlap, RepeatsThreshold) THEN "repeats"
    ELSE IF left.negated # right.negated /\ AtLeast(overlap, ContradictsThreshold)
         THEN "contradicts"
    ELSE IF AtLeast(overlap, SupportsThreshold) THEN "supports"
    ELSE IF right.sentence_index > left.sentence_index
            /\ AtLeast(overlap, ElaboratesThreshold)
         THEN "elaborates"
    ELSE "none"

\* the cascade with the elaborates branch tested before the contradicts branch
RelationOfElaboratesFirst(left, right, overlap) ==
    IF overlap[1] <= 0 THEN "none"
    ELSE IF AtLeast(overlap, RepeatsThreshold) THEN "repeats"
    ELSE IF right.sentence_index > left.sentence_index
            /\ AtLeast(overlap, ElaboratesThreshold)
         THEN "elaborates"
    ELSE IF left.negated # right.negated /\ AtLeast(overlap, ContradictsThreshold)
         THEN "contradicts"
    ELSE IF AtLeast(overlap, SupportsThreshold) THEN "supports"
    ELSE "none"

\* the if/elif cascade of the relation loop; "none" when no branch adds an edge
RelationOf(left, right, overlap) ==
    IF overlap[1] <= 0 THEN "none"
    ELSE IF AtLeast(overlap, RepeatsThreshold) THEN "repeats"
    ELSE IF left.negated # right.negated /\ AtLeast(overlap, ContradictsThreshold)
         THEN "contradicts"
    ELSE IF right.sentence_index > left.sentence_index
            /\ AtLeast(overlap, ElaboratesThreshold)
         THEN "elaborates"
    ELSE IF AtLeast(overlap, SupportsThreshold) THEN "supports"
    ELSE "none"

\* the relation edge drawn from the later clause to the earlier one
WithRelationEdgeReversed(es, left, right) ==
    LET overlap  == _jaccard(left.tokens, right.tokens)
        relation == RelationOf(left, right, overlap)
    IN  IF relation = "none" THEN es
        ELSE add_edge(es, right.id, left.id, relation,
                      RoundRatio(overlap[1], overlap[2], 1000))

\* the four rules as independent `if`s instead of one if/elif chain
WithRelationEdgeParallel(es, left, right) ==
    LET overlap == _jaccard(left.tokens, right.tokens)
        weight  == RoundRatio(overlap[1], overlap[2], 1000)
        e1 == IF overlap[1] > 0 /\ AtLeast(overlap, RepeatsThreshold)
              THEN add_edge(es, left.id, right.id, "repeats", weight) ELSE es
        e2 == IF overlap[1] > 0 /\ left.negated # right.negated
                 /\ AtLeast(overlap, ContradictsThreshold)
              THEN add_edge(e1, left.id, right.id, "contradicts", weight) ELSE e1
        e3 == IF overlap[1] > 0 /\ right.sentence_index > left.sentence_index
                 /\ AtLeast(overlap, ElaboratesThreshold)
              THEN add_edge(e2, left.id, right.id, "elaborates", weight) ELSE e2
    IN  IF overlap[1] > 0 /\ AtLeast(overlap, SupportsThreshold)
        THEN add_edge(e3, left.id, right.id, "supports", weight) ELSE e3

\* edges after the body of the inner relation loop for the pair (left, right)
WithRelationEdge(es, left, right) ==
    LET overlap  == _jaccard(left.tokens, right.tokens)
        relation == RelationOf(left, right, overlap)
    IN  IF relation = "none" THEN es
        ELSE add_edge(es, left.id, right.id, relation,
                      RoundRatio(overlap[1], overlap[2], 1000))

(***************************************************************************)
(* compute_metrics (ratios in ten-thousandths, as round(x, 4) prints them) *)
(***************************************************************************)
RECURSIVE FirstSeen(_, _, _)
\* the keys of Counter(edge["relation"] for edge in edges), in insertion order
FirstSeen(es, k, acc) ==
    IF k > Len(es) THEN acc
    ELSE FirstSeen(es, k + 1,
                   IF es[k].relation \in Range(acc) THEN acc
                   ELSE Append(acc, es[k].relation))

RelationCount(es, relation) ==
    Cardinality({ k \in 1..Len(es) : es[k].relation = relation })

\* math.log2(n) in ten-millionths, for the counts a graph of the model can have
Log2Table ==
    << 0, 10000000, 15849625, 20000000, 23219281, 25849625, 28073549, 30000000,
       31699250, 33219281, 34594316, 35849625, 37004397, 38073549, 39068906, 40000000,
       40874628, 41699250, 42479275, 43219281, 43923174, 44594316, 45235620, 45849625,
       46438562, 47004397, 47548875, 48073549, 48579810, 49068906, 49541963, 50000000 >>
Log2(n) == Log2Table[n]

\* the term of one relation with its sign lost: p * math.log2(p)
SignLost(count, total) == count * (Log2(count) - Log2(total))

\* -p * math.log2(p) for p = count / total, in ten-millionths, times total
EntropyTerm(count, total) == count * (Log2(total) - Log2(count))

RECURSIVE SumOf(_)
SumOf(terms) == IF terms = << >> THEN 0 ELSE terms[1] + SumOf(Tail(terms))

\* relation_entropy, rounded to four decimals, in ten-thousandths
relation_entropy(es) ==
    LET keys      == FirstSeen(es, 1, << >>)
        total_rel == Len(es)
        terms     == [k \in 1..Len(keys) |->
                         EntropyTerm(RelationCount(es, keys[k]), total_rel)]
    IN  IF total_rel = 0 THEN 0 ELSE RoundRatio(SumOf(terms), total_rel * 1000, 1)

compute_metrics(tr, ns, es) ==
    LET response_tokens == SelectSeq(_tokenize(tr.response), LAMBDA t : t \notin STOPWORDS)
        prompt_tokens   == SelectSeq(_tokenize(tr.prompt), LAMBDA t : t \notin STOPWORDS)
        response_set    == Range(response_tokens)
        prompt_set      == Range(prompt_tokens)
        novelty         == IF response_set = {} THEN 10000
                           ELSE RoundRatio(Cardinality(response_set \ prompt_set),
                                           Cardinality(response_set), 10000)
        keys            == FirstSeen(es, 1, << >>)
        clause_count    == Cardinality({ k \in 1..Len(ns) : ns[k].type = "clause" })
        contradiction_edges ==
            LET hits == SelectSeq(es, LAMBDA e : e.relation = "contradicts")
            IN  [k \in 1..Len(hits) |-> hits[k].id]
        sources         == { es[k].source : k \in 1..Len(es) }
    IN  [ counts |-> [ nodes   |-> Len(ns),
                       edges   |-> Len(es),
                       events  |-> tr.events_count,
                       clauses |-> clause_count ],
          metrics |->
            [ repetition_ratio    |-> RoundRatio(RelationCount(es, "repeats"),
                                                 AtLeastOne(clause_count), 10000),
              contradiction_flags |-> contradiction_edges,
              contradiction_count |-> Len(contradiction_edges),
              novelty             |-> novelty,
              compression_ratio   |-> RoundRatio(Len(response_tokens),
                                                 AtLeastOne(Len(prompt_tokens)), 10000),
              branching_factor    |-> RoundRatio(Len(es),
                                                 AtLeastOne(Cardinality(sources)), 10000),
              relation_entropy    |-> relation_entropy(es) ],
          relation_breakdown |->
            [k \in 1..Len(keys) |-> << keys[k], RelationCount(es, keys[k]) >>] ]

(***************************************************************************)
(* json.loads, as load_trace uses it                                       *)
(*                                                                         *)
(* A JSON value is a record of one shape: t is its kind, str the text of a *)
(* string, num the value of a number, keys/items the members of an object  *)
(* (a Python dict: a repeated key keeps its first position and its last    *)
(* value) and items the elements of a list.  The decoder covers strings    *)
(* without escapes, integers, the three literals, lists and objects; the   *)
(* documents given to it hold no backslash, fraction or exponent.          *)
(***************************************************************************)
JValue(kind, s, n, ks, vs) == [t |-> kind, str |-> s, num |-> n, keys |-> ks, items |-> vs]
JNull == JValue("null", << >>, 0, << >>, << >>)
JBool(b) == JValue(IF b THEN "true" ELSE "false", << >>, 0, << >>, << >>)
JNum(n) == JValue("number", << >>, n, << >>, << >>)
JStr(s) == JValue("string", s, 0, << >>, << >>)
JList(vs) == JValue("list", << >>, 0, << >>, vs)
JObj(ks, vs) == JValue("dict", << >>, 0, ks, vs)

\* isinstance(v, dict), isinstance(v, str)
IsDict(v) == v.t = "dict"
IsStr(v) == v.t = "string"

\* dict.get(key, default): the value under the key, the default without it
HasKey(v, key) == \E k \in 1..Len(v.keys) : v.keys[k] = key
Get(v, key, default) ==
    IF HasKey(v, key) THEN v.items[CHOOSE k \in 1..Len(v.keys) : v.keys[k] = key]
    ELSE default

\* d[key] = value
Put(ks, vs, key, value) ==
    IF \E k \in 1..Len(ks) : ks[k] = key
    THEN << ks, [k \in 1..Len(vs) |-> IF ks[k] = key THEN value ELSE vs[k]] >>
    ELSE << Append(ks, key), Append(vs, value) >>

\* bool(v)
Truthy(v) ==
    CASE v.t = "null"   -> FALSE
      [] v.t = "false"  -> FALSE
      [] v.t = "true"   -> TRUE
      [] v.t = "number" -> v.num # 0
      [] v.t = "string" -> v.str # << >>
      [] v.t = "list"   -> v.items # << >>
      [] v.t = "dict"   -> v.keys # << >>

\* the white space of the JSON grammar, the characters a string may not hold raw
JsonSpace == { " ", "\t", "\n", "\r" }
ControlChars == { "\t", "\n", "\r" }

Failed == [ok |-> FALSE, value |-> JNull, next |-> 0]
Parsed(v, k) == [ok |-> TRUE, value |-> v, next |-> k]

RECURSIVE SkipSpace(_, _)
SkipSpace(s, k) == IF k <= Len(s) /\ s[k] \in JsonSpace THEN SkipSpace(s, k + 1) ELSE k

\* s[k..] starts with the characters of w
StartsWith(s, k, w) ==
    /\ k + Len(w) - 1 <= Len(s)
    /\ \A m \in 1..Len(w) : s[k + m - 1] = w[m]

RECURSIVE StringEnd(_, _)
\* the index of the quote that closes the string whose first character is s[k];
\* 0 when a control character, a backslash or the end of the text comes first
StringEnd(s, k) ==
    IF k > Len(s) THEN 0
    ELSE IF s[k] = "\"" THEN k
    ELSE IF s[k] \in ControlChars \/ s[k] = "\\" THEN 0
    ELSE StringEnd(s, k + 1)

\* s[k] is the opening quote
ParseString(s, k) ==
    LET q == StringEnd(s, k + 1)
    IN  IF q = 0 THEN Failed ELSE Parsed(JStr(SubSeq(s, k + 1, q - 1)), q + 1)

RECURSIVE DigitsEnd(_, _)
DigitsEnd(s, k) == IF k <= Len(s) /\ s[k] \in DigitSet THEN DigitsEnd(s, k + 1) ELSE k

RECURSIVE NumberOf(_, _, _, _)
\* the value of the digits s[k..e-1]
NumberOf(s, k, e, acc) ==
    IF k >= e THEN acc ELSE NumberOf(s, k + 1, e, acc * 10 + IndexOf(Digits, s[k]) - 1)

\* -?(0|[1-9][0-9]*) at s[k]
ParseNumber(s, k) ==
    LET d == IF s[k] = "-" THEN k + 1 ELSE k
        e == IF d <= Len(s) /\ s[d] = "0" THEN d + 1 ELSE DigitsEnd(s, d)
    IN  IF e = d THEN Failed
        ELSE LET n == NumberOf(s, d, e, 0)
             IN  Parsed(JNum(IF d = k THEN n ELSE 0 - n), e)

RECURSIVE ParseValue(_, _), ParseItems(_, _, _), ParseMembers(_, _, _, _)
\* scan_once: the value that starts at s[k]
ParseValue(s, k) ==
    IF k > Len(s) THEN Failed
    ELSE CASE s[k] = "\"" -> ParseString(s, k)
           [] s[k] = "{" ->
                LET m == SkipSpace(s, k + 1)
                IN  IF m <= Len(s) /\ s[m] = "}" THEN Parsed(JObj(<< >>, << >>), m + 1)
                    ELSE ParseMembers(s, m, << >>, << >>)
           [] s[k] = "[" ->
                LET m == SkipSpace(s, k + 1)
                IN  IF m <= Len(s) /\ s[m] = "]" THEN Parsed(JList(<< >>), m + 1)
                    ELSE ParseItems(s, m, << >>)
           [] s[k] = "n" /\ StartsWith(s, k, <<"n", "u", "l", "l">>) -> Parsed(JNull, k + 4)
           [] s[k] = "t" /\ StartsWith(s, k, <<"t", "r", "u", "e">>) -> Parsed(JBool(TRUE), k + 4)
           [] s[k] = "f" /\ StartsWith(s, k, <<"f", "a", "l", "s", "e">>) ->
                Parsed(JBool(FALSE), k + 5)
           [] s[k] = "-" \/ s[k] \in DigitSet -> ParseNumber(s, k)
           [] OTHER -> Failed

\* the elements of a list from s[k] on, acc being the elements read so far
ParseItems(s, k, acc) ==
    LET v == ParseValue(s, k)
    IN  IF ~v.ok THEN Failed
        ELSE LET m    == SkipSpace(s, v.next)
                 sofar == Append(acc, v.value)
             IN  IF m > Len(s) THEN Failed
                 ELSE IF s[m] = "]" THEN Parsed(JList(sofar), m + 1)
                 ELSE IF s[m] = "," THEN ParseItems(s, SkipSpace(s, m + 1), sofar)
                 ELSE Failed

\* the members of an object from s[k] on, ks/vs being the members read so far
ParseMembers(s, k, ks, vs) ==
    IF k > Len(s) \/ s[k] # "\"" THEN Failed
    ELSE LET key == ParseString(s, k)
         IN  IF ~key.ok THEN Failed
             ELSE LET c == SkipSpace(s, key.next)
                  IN  IF c > Len(s) \/ s[c] # ":" THEN Failed
                      ELSE LET v == ParseValue(s, SkipSpace(s, c + 1))
                           IN  IF ~v.ok THEN Failed
                               ELSE LET m   == SkipSpace(s, v.next)
                                        put == Put(ks, vs, key.value.str, v.value)
                                    IN  IF m > Len(s) THEN Failed
                                        ELSE IF s[m] = "}"
                                             THEN Parsed(JObj(put[1], put[2]), m + 1)
                                        ELSE IF s[m] = ","
                                             THEN ParseMembers(s, SkipSpace(s, m + 1),
                                                               put[1], put[2])
                                        ELSE Failed

\* json.loads(s): ok is FALSE where it raises JSONDecodeError
JsonLoads(s) ==
    LET v == ParseValue(s, SkipSpace(s, 1))
    IN  IF v.ok /\ SkipSpace(s, v.next) = Len(s) + 1 THEN v ELSE Failed

(***************************************************************************)
(* load_trace                                                              *)
(***************************************************************************)
RECURSIVE Decimal(_)
\* the decimal digits of n >= 0
Decimal(n) ==
    IF n < 10 THEN << Digits[n + 1] >>
    ELSE Append(Decimal(n \div 10), Digits[(n % 10) + 1])

RECURSIVE Join(_, _)
\* sep.join(parts)
Join(parts, sep) ==
    IF parts = << >> THEN << >>
    ELSE IF Len(parts) = 1 THEN parts[1]
    ELSE parts[1] \o sep \o Join(Tail(parts), sep)

RECURSIVE PyRepr(_)
\* repr(v) of a decoded value; a string takes double quotes when it holds an apostrophe
PyRepr(v) ==
    CASE v.t = "null"   -> <<"N", "o", "n", "e">>
      [] v.t = "true"   -> <<"T", "r", "u", "e">>
      [] v.t = "false"  -> <<"F", "a", "l", "s", "e">>
      [] v.t = "number" -> IF v.num < 0 THEN << "-" >> \o Decimal(0 - v.num)
                           ELSE Decimal(v.num)
      [] v.t = "string" ->
           LET quote == IF "'" \in Range(v.str) THEN "\"" ELSE "'"
           IN  << quote >> \o v.str \o << quote >>
      [] v.t = "list"   ->
           << "[" >> \o Join([k \in 1..Len(v.items) |-> PyRepr(v.items[k])], <<",", " ">>)
                     \o << "]" >>
      [] v.t = "dict"   ->
           << "{" >> \o Join([k \in 1..Len(v.keys) |->
                                  PyRepr(JStr(v.keys[k])) \o <<":", " ">>
                                      \o PyRepr(v.items[k])],
                             <<",", " ">>)
                     \o << "}" >>

\* str(v)
PyStr(v) == IF IsStr(v) THEN v.str ELSE PyRepr(v)

\* str.splitlines(): the lines of s, broken at \n, \r and \r\n, the breaks dropped
SplitLines(s) ==
    LET Paired(k) == s[k] = "\n" /\ k > 1 /\ s[k - 1] = "\r"
        Breaks == { k \in 1..Len(s) : s[k] \in { "\n", "\r" } /\ ~Paired(k) }
        After(k) == IF k < Len(s) /\ Paired(k + 1) THEN k + 2 ELSE k + 1
        Starts(k) == k <= Len(s) /\ (k = 1 \/ \E b \in Breaks : After(b) = k)
        LineEnd(k) == LET later == { b \in Breaks : b >= k }
                      IN  IF later = {} THEN Len(s)
                          ELSE (CHOOSE b \in later : \A c \in later : b <= c) - 1
        first == SelectSeq([k \in 1..Len(s) |-> k], Starts)
    IN  [m \in 1..Len(first) |-> SubSeq(s, first[m], LineEnd(first[m]))]

\* the field names of a trace document
PromptKey == <<"p", "r", "o", "m", "p", "t">>
ResponseKey == <<"r", "e", "s", "p", "o", "n", "s", "e">>
EventsKey == <<"e", "v", "e", "n", "t", "s">>

\* iterating v works: a list gives its elements, a string its characters, a dict
\* its keys; anything else raises TypeError
Iterable(v) == v.t \in { "list", "string", "dict" }
\* [e for e in v if isinstance(e, dict)]
DictsOf(v) == IF v.t = "list" THEN SelectSeq(v.items, IsDict) ELSE << >>

RECURSIVE Concat(_)
Concat(lists) == IF lists = << >> THEN << >> ELSE lists[1] \o Concat(Tail(lists))

Raised(kind) ==
    [raised |-> kind, trace |-> [prompt |-> << >>, response |-> << >>, events |-> << >>]]
Returned(prompt, response, events) ==
    [raised |-> "", trace |-> [prompt |-> prompt, response |-> response, events |-> events]]

\* the prompt of the first record that has one
MergedPromptFirstGiven(records) ==
    LET given == SelectSeq(records, LAMBDA r : HasKey(r, PromptKey))
    IN  IF given = << >> THEN JStr(<< >>) ELSE Get(given[1], PromptKey, JStr(<< >>))

\* records[0].get("prompt", "")
MergedPrompt(records) == Get(records[1], PromptKey, JStr(<< >>))

\* the ".jsonl" branch
LoadJsonl(content) ==
    LET stripped == LET lines == SplitLines(content)
                    IN  [k \in 1..Len(lines) |-> Strip(lines[k])]
        kept     == SelectSeq(stripped, LAMBDA line : line # << >>)
        decoded  == [k \in 1..Len(kept) |-> JsonLoads(kept[k])]
        records  == [k \in 1..Len(kept) |-> decoded[k].value]
        response(r) == Get(r, ResponseKey, JStr(<< >>))
        events(r)   == Get(r, EventsKey, JList(<< >>))
        answered == SelectSeq(records, LAMBDA r : Truthy(Get(r, ResponseKey, JNull)))
    IN  IF \E k \in 1..Len(kept) : ~decoded[k].ok THEN Raised("JSONDecodeError")
        ELSE IF records = << >> THEN Raised("TraceParseError")
        ELSE IF \E k \in 1..Len(records) : ~IsDict(records[k]) THEN Raised("AttributeError")
        ELSE IF \E k \in 1..Len(answered) : ~IsStr(response(answered[k]))
             THEN Raised("TypeError")
        ELSE IF \E k \in 1..Len(records) : ~Iterable(events(records[k]))
             THEN Raised("TypeError")
        ELSE LET prompt == MergedPrompt(records)
             IN  IF ~IsStr(prompt) THEN Raised("AttributeError")
                 ELSE Returned(
                        Strip(prompt.str),
                        Strip(Join([k \in 1..Len(answered) |-> response(answered[k]).str],
                                   << "\n" >>)),
                        Concat([k \in 1..Len(records) |-> DictsOf(events(records[k]))]))

\* the ".json" branch
LoadJson(content) ==
    LET data == JsonLoads(content)
    IN  IF ~data.ok THEN Raised("JSONDecodeError")
        ELSE IF ~IsDict(data.value) THEN Raised("AttributeError")
        ELSE LET events == Get(data.value, EventsKey, JList(<< >>))
             IN  IF ~Iterable(events) THEN Raised("TypeError")
                 ELSE Returned(Strip(PyStr(Get(data.value, PromptKey, JStr(<< >>)))),
                               Strip(PyStr(Get(data.value, ResponseKey, JStr(<< >>)))),
                               DictsOf(events))

\* the text branch: the three searches ----------------------------------------
\* the letters of w stand at s[k..], in either case
LabelAt(s, k, w) ==
    /\ k + Len(w) - 1 <= Len(s)
    /\ \A m \in 1..Len(w) : LowerChar(s[k + m - 1]) = w[m]

\* label\s*: at s[k]: the index after the colon, 0 when it does not match
LabelEnd(s, k, w) ==
    IF ~LabelAt(s, k, w) THEN 0
    ELSE LET c == SpaceRunEnd(s, k + Len(w))
         IN  IF c <= Len(s) /\ s[c] = ":" THEN c + 1 ELSE 0

\* \n\s*label\s*: matches at s[e]
TailAt(s, e, w) ==
    /\ e <= Len(s) /\ s[e] = "\n"
    /\ LabelEnd(s, SpaceRunEnd(s, e + 1), w) # 0

\* $ matches at e: the end of the text, or just before a final newline
AtEnd(s, e) == e = Len(s) + 1 \/ (e = Len(s) /\ s[e] = "\n")

Smallest(S) == CHOOSE x \in S : \A y \in S : x <= y
Largest(S) == CHOOSE x \in S : \A y \in S : x >= y

NoMatch == [found |-> FALSE, group |-> << >>]
Match(s, g, e) == [found |-> TRUE, group |-> SubSeq(s, g, e - 1)]

\* label\s*:\s*(.+?)<stop> tried at s[k], stops being the positions where <stop>
\* matches: the greedy \s* gives way one character at a time, the lazy group ends
\* at the first stop after its first character
LazyGroupAt(s, k, w, stops) ==
    LET c == LabelEnd(s, k, w)
    IN  IF c = 0 THEN NoMatch
        ELSE LET ends(g) == { e \in stops : e > g }
                 starts  == { g \in c..SpaceRunEnd(s, c) : g <= Len(s) /\ ends(g) # {} }
             IN  IF starts = {} THEN NoMatch
                 ELSE LET g == Largest(starts)
                      IN  Match(s, g, Smallest(ends(g)))

\* re.search: of the matches tried at each position, the leftmost
Search(tried) ==
    LET hits == { k \in 1..Len(tried) : tried[k].found }
    IN  IF hits = {} THEN NoMatch ELSE tried[Smallest(hits)]

\* prompt\s*:\s*(.+?)\n\s*response\s*:
PromptMatch(raw) ==
    LET stops == { e \in 1..Len(raw) : TailAt(raw, e, ResponseKey) }
    IN  Search([k \in 1..Len(raw) |-> LazyGroupAt(raw, k, PromptKey, stops)])

\* response\s*:\s*(.+?)(?:\n\s*events\s*:|$)
ResponseMatch(raw) ==
    LET stops == { e \in 1..(Len(raw) + 1) : TailAt(raw, e, EventsKey) \/ AtEnd(raw, e) }
    IN  Search([k \in 1..Len(raw) |-> LazyGroupAt(raw, k, ResponseKey, stops)])

\* events\s*:\s*(\[.*\])\s*$ tried at raw[k]: the greedy .* ends at the last "]",
\* after which only white space may follow
EventsGroupAt(raw, k) ==
    LET c == LabelEnd(raw, k, EventsKey)
    IN  IF c = 0 THEN NoMatch
        ELSE LET b      == SpaceRunEnd(raw, c)
                 closes == { q \in (b + 1)..Len(raw) :
                               /\ raw[q] = "]"
                               /\ SpaceRunEnd(raw, q + 1) = Len(raw) + 1 }
             IN  IF b > Len(raw) \/ raw[b] # "[" \/ closes = {} THEN NoMatch
                 ELSE Match(raw, b, Largest(closes) + 1)

EventsMatch(raw) == Search([k \in 1..Len(raw) |-> EventsGroupAt(raw, k)])

\* the branch of every other suffix
LoadText(raw) ==
    LET prompt_match   == PromptMatch(raw)
        response_match == ResponseMatch(raw)
        events_match   == EventsMatch(raw)
    IN  IF ~prompt_match.found \/ ~response_match.found THEN Raised("TraceParseError")
        ELSE LET decoded == IF events_match.found THEN JsonLoads(events_match.group)
                            ELSE Parsed(JNull, 0)
             IN  IF ~decoded.ok THEN Raised("JSONDecodeError")
                 ELSE Returned(Strip(prompt_match.group), Strip(response_match.group),
                               DictsOf(decoded.value))

JsonlSuffix == <<".", "j", "s", "o", "n", "l">>
JsonSuffix == <<".", "j", "s", "o", "n">>

\* path.read_text(): the characters of the file, every \r\n and every other \r
\* turned into \n as text mode does
ReadText(content) ==
    LET Kept(k) == ~(content[k] = "\n" /\ k > 1 /\ content[k - 1] = "\r")
        kept == SelectSeq([k \in 1..Len(content) |-> k], Kept)
    IN  [m \in 1..Len(kept) |->
            IF content[kept[m]] = "\r" THEN "\n" ELSE content[kept[m]]]

\* load_trace(path): what it raises ("" when it returns) and the trace it returns
load_trace(path) ==
    LET suffix == Lower(path.suffix)
        raw    == ReadText(path.content)
    IN  IF suffix = JsonlSuffix THEN LoadJsonl(raw)
        ELSE IF suffix = JsonSuffix THEN LoadJson(raw)
        ELSE LoadText(raw)

(***************************************************************************)
(* flight_controller: the fallback heuristics of EngineAdapters (the       *)
(* modules it tries to import offer none of the methods it looks for)      *)
(***************************************************************************)
\* the names a file of the stream directory can have; one of them is hidden
FileNames == { <<"a", ".", "t", "x", "t">>, <<"b", ".", "t", "x", "t">>, <<".", "k", "e", "e", "p">> }
\* no file of that name
Absent == [there |-> FALSE, content |-> << >>]
\* ensure_dirs() on a fresh checkout
EmptyDirectory == [n \in FileNames |-> Absent]

\* the maximal runs of the characters of s that are in chars, first to last
Runs(s, chars) ==
    LET Starts(k) == s[k] \in chars /\ (k = 1 \/ s[k - 1] \notin chars)
        Ends(k)   == s[k] \in chars /\ (k = Len(s) \/ s[k + 1] \notin chars)
        first     == SelectSeq([k \in 1..Len(s) |-> k], Starts)
        last      == SelectSeq([k \in 1..Len(s) |-> k], Ends)
    IN  [m \in 1..Len(first) |-> SubSeq(s, first[m], last[m])]

\* re.findall(r"\b\w+\b", s): \w+ is greedy and a maximal run ends at a boundary
FindAllWords(s) == Runs(s, WordChars)

\* re.findall(r"\S+", s)
FindAllChunks(s) == Runs(s, Range(s) \ WhiteSpace)

\* w in s
Contains(s, w) == \E k \in 1..(Len(s) - Len(w) + 1) : StartsWith(s, k, w)

surreal_tokens ==
    { <<"d", "r", "e", "a", "m", "s">>,
      <<"p", "u", "r", "p", "l", "e">>,
      <<"c", "l", "o", "u", "d", "s">>,
      <<"f", "l", "y">>,
      <<"w", "i", "n", "g", "s">>,
      <<"m", "a", "g", "i", "c">>,
      <<"e", "t", "h", "e", "r">>,
      <<"t", "e", "l", "e", "p", "a", "t", "h", "y">>,
      <<"h", "a", "l", "l", "u", "c", "i", "n", "a", "t", "i", "o", "n">>,
      <<"b", "e", "c", "o", "m", "e", "s">>,
      <<"e", "a", "t">> }

\* the weights of the score and the threshold of the label, in hundredths
UniqueWeight == 55
SurrealWeight == 45
HighThreshold == 45

\* EngineAdapters.entropy, fallback: the score as the exact ratio num / den and
\* the label.  The label compares exactly; the floating-point sum can differ from
\* the exact one only where 11 * unique + 9 * surreal = 9 * count, which takes at
\* least eleven words.
entropy(content) ==
    LET words        == FindAllWords(Lower(content))
        token_count  == IF Len(words) = 0 THEN 1 ELSE Len(words)
        unique       == Cardinality(Range(words))
        surreal_hits == Cardinality({ k \in 1..Len(words) : words[k] \in surreal_tokens })
        num          == UniqueWeight * unique + SurrealWeight * surreal_hits
        den          == 100 * token_count
    IN  [score |-> IF num > den THEN << 1, 1 >> ELSE << num, den >>,
         label |-> IF num * 100 >= HighThreshold * den THEN "HIGH" ELSE "LOW"]

\* the number of words torque keeps
TorqueWords == 24

\* EngineAdapters.torque, fallback: " ".join(words[:24]).strip()
torque(content) ==
    LET words == FindAllChunks(content)
        kept  == SubSeq(words, 1, IF Len(words) < TorqueWords THEN Len(words) ELSE TorqueWords)
    IN  Strip(Join(kept, << " " >>))

nonsense_flags ==
    << <<"d", "a", "t", "a", " ", "b", "e", "c", "o", "m", "e", "s", " ", "p", "u", "r", "p", "l", "e">>,
       <<"e", "a", "t", " ", "t", "h", "e", " ", "c", "l", "o", "u", "d", "s">>,
       <<"w", "i", "n", "g", "s", " ", "a", "r", "e", " ", "m", "a", "d", "e", " ", "o", "f", " ", "d", "r", "e", "a", "m", "s">> >>

concrete_terms ==
    { <<"d", "e", "v", "i", "c", "e">>,
      <<"s", "e", "n", "s", "o", "r">>,
      <<"m", "o", "d", "e">>,
      <<"i", "n", "p", "u", "t">>,
      <<"o", "u", "t", "p", "u", "t">>,
      <<"l", "o", "g">>,
      <<"t", "e", "s", "t">>,
      <<"s", "y", "s", "t", "e", "m">>,
      <<"f", "i", "l", "e">> }

\* EngineAdapters.veto, fallback: (grounded, reason); the reason of a nonsense
\* phrase names the first flag found
veto(content) ==
    LET lowered == Lower(content)
        found   == { k \in 1..Len(nonsense_flags) : Contains(lowered, nonsense_flags[k]) }
        words   == Range(FindAllWords(lowered))
    IN  IF found # {}
        THEN [grounded |-> FALSE,
              reason |-> [kind |-> "ungrounded_phrase",
                          flag |-> nonsense_flags[CHOOSE k \in found : \A m \in found : k <= m]]]
        ELSE [grounded |-> words \cap concrete_terms # {},
              reason |-> [kind |-> "fallback_groundedness", flag |-> << >>]]

\* process_file: lifting whatever the veto calls grounded
LiftedWhenGrounded(label, grounded) == grounded

\* process_file: if entropy.label == "LOW" and grounded
Lifted(label, grounded) == label = "LOW" /\ grounded

\* the number of characters of the rotated content a failure report shows
PreviewLength == 240

\* process_file is not running: its locals have no value
NoFile ==
    [file |-> << >>, content |-> << >>,
     entropy |-> [score |-> << 0, 1 >>, label |-> ""],
     torqued |-> FALSE, rotated_content |-> << >>, final_content |-> << >>,
     grounded |-> FALSE, reason |-> [kind |-> "", flag |-> << >>]]

\* p.name.startswith(".")
Hidden(name) == name[1] = "."

RECURSIVE Sorted(_)
\* sorted(names)
Sorted(names) ==
    IF names = {} THEN << >>
    ELSE LET least == CHOOSE n \in names : \A m \in names \ { n } : StrLess(n, m)
         IN  << least >> \o Sorted(names \ { least })

\* stream_files(): the files of the stream directory that are not hidden, sorted
stream_files(dir) == Sorted({ n \in DOMAIN dir : dir[n].there /\ ~Hidden(n) })

(***************************************************************************)
(* Inputs                                                                  *)
(***************************************************************************)
\* the number of clauses a generated response is assembled from
MaxClauses == 2

\* the words generated clauses are made of: a content word, a negation, a stopword
Vocabulary ==
    << <<"d", "o", "g">>,
       <<"n", "o", "t">>,
       <<"t", "h", "e">> >>

\* what stands between two generated clauses: a coarse separator, a sentence end
ClauseJoints ==
    { <<",", " ">>, <<".", " ">> }

RECURSIVE WordsOf(_, _)
\* the words picked by the index set `picked`, in vocabulary order, space-separated
WordsOf(picked, k) ==
    IF k > Len(Vocabulary) THEN << >>
    ELSE LET rest == WordsOf(picked, k + 1)
         IN  IF k \notin picked THEN rest
             ELSE IF rest = << >> THEN Vocabulary[k]
             ELSE Vocabulary[k] \o << " " >> \o rest

GeneratedClauses == { WordsOf(picked, 1) : picked \in SUBSET (1..Len(Vocabulary)) }

RECURSIVE GeneratedResponses(_)
\* the responses of exactly n generated clauses
GeneratedResponses(n) ==
    IF n = 0 THEN { << >> }
    ELSE IF n = 1 THEN { c \o << "." >> : c \in GeneratedClauses }
    ELSE { c \o joint \o r : c \in GeneratedClauses, joint \in ClauseJoints,
                              r \in GeneratedResponses(n - 1) }

GeneratedPrompt ==
    <<"t", "h", "e", " ", "d", "o", "g">>

ScenarioPrompt ==
    <<"W", "h", "a", "t", " ", "s", "h", "o", "u", "l", "d", " ", "t", "h", "e", " ", "d", "e", "v", "i", "c", "e", " ", "d", "o", "?">>
ScenarioResponse ==
    <<"T", "h", "e", " ", "d", "e", "v", "i", "c", "e", " ", "s", "h", "o", "u", "l", "d", " ", "l", "o", "g", " ", "t", "h", "e", " ", "s", "i", "g", "n", "a", "l", ".", " ">>
    \o <<"H", "o", "w", "e", "v", "e", "r", ",", " ", "t", "h", "e", " ", "d", "e", "v", "i", "c", "e", " ", "m", "u", "s", "t", " ", "n", "o", "t", " ", "l", "o", "g", " ", "t", "h", "e", " ", "s", "i", "g", "n", "a", "l", ".">>

\* responses whose clause pairs sit on either side of each threshold
BoundaryResponses ==
    { \* 1/7 across sentences: 'ka kb kc kd. ka ke kf kg.'
      <<"k", "a", " ", "k", "b", " ", "k", "c", " ", "k", "d", ".", " ", "k", "a", " ", "k", "e", " ", "k", "f", " ", "k", "g", ".">>,
      \* 1/8 across sentences: 'ka kb kc kd. ka ke kf kg kh.'
      <<"k", "a", " ", "k", "b", " ", "k", "c", " ", "k", "d", ".", " ", "k", "a", " ", "k", "e", " ", "k", "f", " ", "k", "g", " ", "k", "h", ".">>,
      \* 1/4, negation differs, one sentence: 'ka no, ka kb kc'
      <<"k", "a", " ", "n", "o", ",", " ", "k", "a", " ", "k", "b", " ", "k", "c">>,
      \* 1/5, negation differs, one sentence: 'ka no kd, ka kb kc'
      <<"k", "a", " ", "n", "o", " ", "k", "d", ",", " ", "k", "a", " ", "k", "b", " ", "k", "c">>,
      \* 1/5, negation differs, across sentences: 'ka no kd. ka kb kc.'
      <<"k", "a", " ", "n", "o", " ", "k", "d", ".", " ", "k", "a", " ", "k", "b", " ", "k", "c", ".">>,
      \* 1/4, one sentence: 'ka kd, ka kb kc'
      <<"k", "a", " ", "k", "d", ",", " ", "k", "a", " ", "k", "b", " ", "k", "c">>,
      \* 2/7, one sentence: 'ka kb kc kd, ka kb ke kf kg'
      <<"k", "a", " ", "k", "b", " ", "k", "c", " ", "k", "d", ",", " ", "k", "a", " ", "k", "b", " ", "k", "e", " ", "k", "f", " ", "k", "g">>,
      \* 5/7, one sentence: 'ka kb kc kd ke kf, ka kb kc kd ke kg'
      <<"k", "a", " ", "k", "b", " ", "k", "c", " ", "k", "d", " ", "k", "e", " ", "k", "f", ",", " ", "k", "a", " ", "k", "b", " ", "k", "c", " ", "k", "d", " ", "k", "e", " ", "k", "g">>,
      \* 3/4, one sentence: 'ka kb kc; ka kb kc kd'
      <<"k", "a", " ", "k", "b", " ", "k", "c", ";", " ", "k", "a", " ", "k", "b", " ", "k", "c", " ", "k", "d">>,
      \* 3/4, negation differs, across sentences: 'ka kb kc. not ka kb kc!'
      <<"k", "a", " ", "k", "b", " ", "k", "c", ".", " ", "n", "o", "t", " ", "k", "a", " ", "k", "b", " ", "k", "c", "!">>,
      \* keyphrases and conjunction: 'signal signal device log the - and log (device)'
      <<"s", "i", "g", "n", "a", "l", " ", "s", "i", "g", "n", "a", "l", " ", "d", "e", "v", "i", "c", "e", " ", "l", "o", "g", " ", "t", "h", "e", " ", "-", " ", "a", "n", "d", " ", "l", "o", "g", " ", "(", "d", "e", "v", "i", "c", "e", ")">>,
      \* 1/5 in one sentence, 1/2 and 1/5 across sentences: 'ka kb kc, ka kd ke. ka kb kf'
      <<"k", "a", " ", "k", "b", " ", "k", "c", ",", " ", "k", "a", " ", "k", "d", " ", "k", "e", ".", " ", "k", "a", " ", "k", "b", " ", "k", "f">>,
      \* case, three sentences: 'Dog cat. Cat DOG? Never dog, cat fox'
      <<"D", "o", "g", " ", "c", "a", "t", ".", " ", "C", "a", "t", " ", "D", "O", "G", "?", " ", "N", "e", "v", "e", "r", " ", "d", "o", "g", ",", " ", "c", "a", "t", " ", "f", "o", "x">> }

Traces ==
    { [prompt |-> GeneratedPrompt, response |-> r, events_count |-> 0] :
          r \in UNION { GeneratedResponses(n) : n \in 0..MaxClauses } \cup BoundaryResponses }
    \cup { [prompt |-> ScenarioPrompt, response |-> ScenarioResponse, events_count |-> 0] }

(***************************************************************************)
(* build_thinking_geometry as a state machine                              *)
(***************************************************************************)
NoTrace == [prompt |-> << >>, response |-> << >>, events_count |-> 0]

\* load_trace has not been called: no file, no outcome, nothing written, no return
NoPath == [exists |-> FALSE, suffix |-> << >>, content |-> << >>]
NothingLoaded == [raised |-> "", trace |-> [prompt |-> << >>, response |-> << >>, events |-> << >>]]
NoDirectory == [exists |-> FALSE, files |-> {}]
NotReturned == 0 - 1
ViewerIdle ==
    /\ input_path = NoPath /\ loaded = NothingLoaded
    /\ output_dir = NoDirectory /\ exit_code = NotReturned

FlightIdle ==
    /\ once = FALSE /\ max_iterations = 0 /\ iterations = 0
    /\ files = << >>
    /\ stream = EmptyDirectory /\ glitch_log = EmptyDirectory
    /\ lift_protocols = EmptyDirectory
    /\ reports = << >> /\ processed = << >>
    /\ current = NoFile

\* a new engine: self.history = []
NoCall == [called |-> FALSE, raised |-> FALSE, state |-> << >>]
EngineIdle == history = << >> /\ evaluated = NoCall

\* nothing outside build_thinking_geometry and the pure functions is in use
OutsideIdle == ViewerIdle /\ runs = << >> /\ FlightIdle /\ EngineIdle

\* the variables of the pure-function entry points
PureIdle == text = << >> /\ limit = DefaultLimit /\ result = << >>

\* the locals of build_thinking_geometry before its first statement
BuildLocals ==
    /\ sentences = << >> /\ clauses = << >> /\ phrases = << >>
    /\ s_idx = 0 /\ c_idx = 0 /\ p_idx = 0
    /\ s_id = << >> /\ c_id = << >>
    /\ nodes = << >> /\ edges = << >> /\ clause_records = << >>
    /\ i = 0 /\ j = 0
    /\ metrics = << >>

Init ==
    /\ mode = "build"
    /\ pc = "start"
    /\ trace \in Traces
    /\ BuildLocals
    /\ PureIdle
    /\ OutsideIdle

\* sentences = _split_sentences(trace.response)
SplitResponse ==
    /\ mode = "build" /\ pc = "start"
    /\ sentences' = _split_sentences(trace.response)
    /\ s_idx' = 0
    /\ pc' = "sentence"
    /\ UNCHANGED << mode, trace, clauses, phrases, c_idx, p_idx, s_id, c_id, nodes,
                    edges, clause_records, i, j, metrics, text, limit, result >>
    /\ UNCHANGED outside

\* one turn of the sentence loop up to the clause loop
VisitSentence ==
    /\ mode = "build" /\ pc = "sentence"
    /\ s_idx < Len(sentences)
    /\ LET sentence == sentences[s_idx + 1]
       IN  /\ nodes' = add_node(nodes, [type |-> "sentence", text |-> sentence,
                                        sentence_index |-> s_idx])
           /\ s_id' = NodeId(Len(nodes))
           /\ clauses' = _split_clauses(sentence)
    /\ c_idx' = 0
    /\ pc' = "clause"
    /\ UNCHANGED << mode, trace, sentences, phrases, s_idx, p_idx, c_id, edges,
                    clause_records, i, j, metrics, text, limit, result >>
    /\ UNCHANGED outside

\* one turn of the clause loop up to the keyphrase loop
VisitClause ==
    /\ mode = "build" /\ pc = "clause"
    /\ c_idx < Len(clauses)
    /\ LET clause   == clauses[c_idx + 1]
           c_tokens == ClauseTokens(clause)
       IN  /\ nodes' = add_node(nodes, [type |-> "clause", text |-> clause,
                                        sentence_index |-> s_idx, clause_index |-> c_idx])
           /\ c_id' = NodeId(Len(nodes))
           /\ edges' = add_edge(edges, s_id, NodeId(Len(nodes)), "elaborates",
                                StructuralClauseWeight)
           /\ clause_records' =
                  Append(clause_records,
                         [id |-> NodeId(Len(nodes)), text |-> clause, tokens |-> c_tokens,
                          negated |-> IsNegated(c_tokens), sentence_index |-> s_idx])
           /\ phrases' = _extract_keyphrases(clause, DefaultLimit)
    /\ p_idx' = 0
    /\ pc' = "phrase"
    /\ UNCHANGED << mode, trace, sentences, clauses, s_idx, c_idx, s_id, i, j, metrics,
                    text, limit, result >>
    /\ UNCHANGED outside

\* the keyphrase edge drawn from the sentence node instead of the clause node
AddKeyphraseFromSentence ==
    /\ mode = "build" /\ pc = "phrase"
    /\ p_idx < Len(phrases)
    /\ nodes' = add_node(nodes, [type |-> "keyphrase", text |-> phrases[p_idx + 1],
                                 sentence_index |-> s_idx, clause_index |-> c_idx])
    /\ edges' = add_edge(edges, s_id, NodeId(Len(nodes)), "supports", StructuralPhraseWeight)
    /\ p_idx' = p_idx + 1
    /\ UNCHANGED << mode, pc, trace, sentences, clauses, phrases, s_idx, c_idx, s_id, c_id,
                    clause_records, i, j, metrics, text, limit, result >>
    /\ UNCHANGED outside

\* one turn of the keyphrase loop
AddKeyphrase ==
    /\ mode = "build" /\ pc = "phrase"
    /\ p_idx < Len(phrases)
    /\ nodes' = add_node(nodes, [type |-> "keyphrase", text |-> phrases[p_idx + 1],
                                 sentence_index |-> s_idx, clause_index |-> c_idx])
    /\ edges' = add_edge(edges, c_id, NodeId(Len(nodes)), "supports", StructuralPhraseWeight)
    /\ p_idx' = p_idx + 1
    /\ UNCHANGED << mode, pc, trace, sentences, clauses, phrases, s_idx, c_idx, s_id, c_id,
                    clause_records, i, j, metrics, text, limit, result >>
    /\ UNCHANGED outside

\* the keyphrase loop is exhausted: next clause
EndPhrases ==
    /\ mode = "build" /\ pc = "phrase"
    /\ p_idx = Len(phrases)
    /\ c_idx' = c_idx + 1
    /\ pc' = "clause"
    /\ UNCHANGED << mode, trace, sentences, clauses, phrases, s_idx, p_idx, s_id, c_id,
                    nodes, edges, clause_records, i, j, metrics, text, limit, result >>
    /\ UNCHANGED outside

\* the clause loop is exhausted: next sentence
EndClauses ==
    /\ mode = "build" /\ pc = "clause"
    /\ c_idx = Len(clauses)
    /\ s_idx' = s_idx + 1
    /\ pc' = "sentence"
    /\ UNCHANGED << mode, trace, sentences, clauses, phrases, c_idx, p_idx, s_id, c_id,
                    nodes, edges, clause_records, i, j, metrics, text, limit, result >>
    /\ UNCHANGED outside

\* the sentence loop is exhausted: the relation loops start at i = 0, j = 1
EndSentences ==
    /\ mode = "build" /\ pc = "sentence"
    /\ s_idx = Len(sentences)
    /\ i' = 0 /\ j' = 1
    /\ pc' = "relations"
    /\ UNCHANGED << mode, trace, sentences, clauses, phrases, s_idx, c_idx, p_idx, s_id,
                    c_id, nodes, edges, clause_records, metrics, text, limit, result >>
    /\ UNCHANGED outside

\* one turn of the inner relation loop
ClassifyPair ==
    /\ mode = "build" /\ pc = "relations"
    /\ i < Len(clause_records) /\ j < Len(clause_records)
    /\ edges' = WithRelationEdge(edges, clause_records[i + 1], clause_records[j + 1])
    /\ j' = j + 1
    /\ UNCHANGED << mode, pc, trace, sentences, clauses, phrases, s_idx, c_idx, p_idx,
                    s_id, c_id, nodes, clause_records, i, metrics, text, limit, result >>
    /\ UNCHANGED outside

\* the inner relation loop is exhausted: next i, j from i + 1
NextLeft ==
    /\ mode = "build" /\ pc = "relations"
    /\ i < Len(clause_records) /\ j >= Len(clause_records)
    /\ i' = i + 1
    /\ j' = i + 2
    /\ UNCHANGED << mode, pc, trace, sentences, clauses, phrases, s_idx, c_idx, p_idx,
                    s_id, c_id, nodes, edges, clause_records, metrics, text, limit,
                    result >>
    /\ UNCHANGED outside

\* the relation loops are exhausted: metrics = compute_metrics(trace, nodes, edges)
Finish ==
    /\ mode = "build" /\ pc = "relations"
    /\ i >= Len(clause_records)
    /\ metrics' = compute_metrics(trace, nodes, edges)
    /\ pc' = "done"
    /\ UNCHANGED << mode, trace, sentences, clauses, phrases, s_idx, c_idx, p_idx, s_id,
                    c_id, nodes, edges, clause_records, i, j, text, limit, result >>
    /\ UNCHANGED outside

Next ==
    \/ SplitResponse
    \/ VisitSentence
    \/ VisitClause
    \/ AddKeyphrase
    \/ EndPhrases
    \/ EndClauses
    \/ EndSentences
    \/ ClassifyPair
    \/ NextLeft
    \/ Finish

Spec == Init /\ [][Next]_vars

(***************************************************************************)
(* The pure functions on their own: the argument is drawn in the initial   *)
(* state, one action calls the function                                    *)
(***************************************************************************)
RECURSIVE TextsOver(_, _)
\* the texts of at most n characters over an alphabet
TextsOver(alphabet, n) ==
    IF n = 0 THEN { << >> }
    ELSE LET shorter == TextsOver(alphabet, n - 1)
         IN  shorter \cup { Append(t, c) : t \in shorter, c \in alphabet }

\* _tokenize ---------------------------------------------------------------
MaxTokenizeLen == 4
\* a lower-case letter, an upper-case letter, a digit, the apostrophe, two separators
TokenizeAlphabet == { "a", "B", "7", "'", "-", " " }

InitTokenize ==
    /\ mode = "tokenize"
    /\ pc = "call"
    /\ text \in TextsOver(TokenizeAlphabet, MaxTokenizeLen)
    /\ limit = DefaultLimit
    /\ result = << >>
    /\ trace = NoTrace
    /\ BuildLocals
    /\ OutsideIdle

CallTokenize ==
    /\ mode = "tokenize" /\ pc = "call"
    /\ result' = _tokenize(text)
    /\ pc' = "returned"
    /\ UNCHANGED << mode, trace, sentences, clauses, phrases, s_idx, c_idx, p_idx, s_id,
                    c_id, nodes, edges, clause_records, i, j, metrics, text, limit >>
    /\ UNCHANGED outside

NextTokenize == CallTokenize

SpecTokenize == InitTokenize /\ [][NextTokenize]_vars

\* _split_sentences, then _split_clauses on each sentence -------------------
MaxSegmentLen == 5
\* the letters of "And", the two kinds of white space (one that the clause strip
\* removes, one that it leaves), the dash, a coarse separator, a sentence terminal
SegmentAlphabet == { "A", "n", "d", " ", "\r", "-", ",", "." }

InitSegment ==
    /\ mode = "segment"
    /\ pc = "call"
    /\ text \in TextsOver(SegmentAlphabet, MaxSegmentLen)
    /\ limit = DefaultLimit
    /\ result = << >>
    /\ trace = NoTrace
    /\ BuildLocals
    /\ OutsideIdle

CallSplitSentences ==
    /\ mode = "segment" /\ pc = "call"
    /\ sentences' = _split_sentences(text)
    /\ s_idx' = 0
    /\ pc' = "sentences"
    /\ UNCHANGED << mode, trace, clauses, phrases, c_idx, p_idx, s_id, c_id, nodes, edges,
                    clause_records, i, j, metrics, text, limit, result >>
    /\ UNCHANGED outside

\* _split_clauses on the next sentence; s_idx counts the sentences done
CallSplitClauses ==
    /\ mode = "segment" /\ pc \in { "sentences", "clauses" }
    /\ s_idx < Len(sentences)
    /\ clauses' = _split_clauses(sentences[s_idx + 1])
    /\ s_idx' = s_idx + 1
    /\ pc' = "clauses"
    /\ UNCHANGED << mode, trace, sentences, phrases, c_idx, p_idx, s_id, c_id, nodes,
                    edges, clause_records, i, j, metrics, text, limit, result >>
    /\ UNCHANGED outside

NextSegment == CallSplitSentences \/ CallSplitClauses

SpecSegment == InitSegment /\ [][NextSegment]_vars

\* _extract_keyphrases -----------------------------------------------------
MaxKeyWords == 4
MaxLimit == 3
\* two words of one length, a longer one, a stopword, a word of two letters
KeyVocabulary ==
    { <<"d", "o", "g">>, <<"c", "a", "t">>, <<"o", "x", "e", "n">>,
      <<"t", "h", "e">>, <<"n", "o">> }

RECURSIVE KeyClauses(_)
\* the clauses of at most n vocabulary words, space-separated
KeyClauses(n) ==
    IF n = 0 THEN { << >> }
    ELSE LET shorter == KeyClauses(n - 1)
         IN  shorter \cup { IF c = << >> THEN w ELSE c \o << " " >> \o w :
                                c \in shorter, w \in KeyVocabulary }

InitKeyphrases ==
    /\ mode = "keyphrases"
    /\ pc = "call"
    /\ text \in KeyClauses(MaxKeyWords)
    /\ limit \in (0 - 1)..MaxLimit
    /\ result = << >>
    /\ trace = NoTrace
    /\ BuildLocals
    /\ OutsideIdle

CallExtractKeyphrases ==
    /\ mode = "keyphrases" /\ pc = "call"
    /\ result' = _extract_keyphrases(text, limit)
    /\ pc' = "returned"
    /\ UNCHANGED << mode, trace, sentences, clauses, phrases, s_idx, c_idx, p_idx, s_id,
                    c_id, nodes, edges, clause_records, i, j, metrics, text, limit >>
    /\ UNCHANGED outside

NextKeyphrases == CallExtractKeyphrases

SpecKeyphrases == InitKeyphrases /\ [][NextKeyphrases]_vars

\* load_trace ---------------------------------------------------------------
\* the number of pieces a trace document is assembled from
MaxFragments == 2

\* the pieces trace documents are assembled from, one or two lines each:
\*   a blank line
\*   a line of white space
\*   a record with a padded prompt and one event
\*   a record without prompt, one event that is an object and one that is not
\*   a record with an empty response
\*   a padded record ending in a carriage return
\*   a record whose prompt is a number
\*   a record whose response is a list
\*   a record whose events is a number
\*   a record whose events is a string
\*   a line that is a list
\*   a line that is not JSON
\*   the prompt label
\*   both labels, the prompt empty
\*   both labels
\*   the response label and nothing after it
\*   the response label
\*   an events array
\*   a malformed events array
\*   events that are no array
Fragments ==
    { <<>>,
      <<" ", "\t">>,
      <<"{", "\"", "p", "r", "o", "m", "p", "t", "\"", ":", " ", "\"", " ", "h", "i", " ", "\"", ",", " ", "\"", "r", "e", "s", "p", "o", "n", "s", "e", "\"", ":", " ", "\"", "a", " ", "b", "\"", ",", " ", "\"", "e", "v", "e", "n", "t", "s", "\"", ":", " ", "[", "{", "\"", "e", "\"", ":", " ", "0", "}", "]", "}">>,
      <<"{", "\"", "r", "e", "s", "p", "o", "n", "s", "e", "\"", ":", " ", "\"", "c", "\"", ",", " ", "\"", "e", "v", "e", "n", "t", "s", "\"", ":", " ", "[", "{", "\"", "k", "\"", ":", " ", "1", "}", ",", " ", "2", "]", "}">>,
      <<"{", "\"", "p", "r", "o", "m", "p", "t", "\"", ":", " ", "\"", "q", "\"", ",", " ", "\"", "r", "e", "s", "p", "o", "n", "s", "e", "\"", ":", " ", "\"", "\"", "}">>,
      <<" ", "{", "\"", "r", "e", "s", "p", "o", "n", "s", "e", "\"", ":", " ", "\"", "d", " ", "\"", ",", " ", "\"", "e", "v", "e", "n", "t", "s", "\"", ":", " ", "[", "{", "}", "]", "}", "\r">>,
      <<"{", "\"", "p", "r", "o", "m", "p", "t", "\"", ":", " ", "\"", "i", "t", "'", "s", "\"", ",", " ", "\"", "p", "r", "o", "m", "p", "t", "\"", ":", " ", "7", ",", " ", "\"", "n", "\"", ":", " ", "n", "u", "l", "l", "}">>,
      <<"{", "\"", "r", "e", "s", "p", "o", "n", "s", "e", "\"", ":", " ", "[", "t", "r", "u", "e", "]", "}">>,
      <<"{", "\"", "e", "v", "e", "n", "t", "s", "\"", ":", " ", "-", "3", "}">>,
      <<"{", "\"", "e", "v", "e", "n", "t", "s", "\"", ":", " ", "\"", "a", "b", "\"", "}">>,
      <<"[", "{", "\"", "p", "r", "o", "m", "p", "t", "\"", ":", " ", "\"", "x", "\"", "}", "]">>,
      <<"{", "\"", "p", "r", "o", "m", "p", "t", "\"", ":", " ", "\"", "x", "\"">>,
      <<"p", "r", "o", "m", "p", "t", ":", " ", "h", "i">>,
      <<"P", "r", "o", "m", "p", "t", " ", ":", "\n", " ", "R", "e", "s", "p", "o", "n", "s", "e", " ", ":", " ", "o", "k", " ">>,
      <<"p", "r", "o", "m", "p", "t", ":", " ", "o", "n", "e", "\n", "R", "E", "S", "P", "O", "N", "S", "E", ":", " ", "t", "w", "o">>,
      <<"r", "e", "s", "p", "o", "n", "s", "e", ":">>,
      <<"r", "e", "s", "p", "o", "n", "s", "e", ":", " ", "y", "e", "s">>,
      <<"e", "v", "e", "n", "t", "s", ":", " ", "[", "{", "\"", "k", "\"", ":", " ", "1", "}", ",", " ", "3", "]">>,
      <<"e", "v", "e", "n", "t", "s", ":", " ", "[", "o", "o", "p", "s", "]">>,
      <<"e", "v", "e", "n", "t", "s", ":", " ", "{", "\"", "k", "\"", ":", " ", "[", "1", "]", "}">> }

RECURSIVE Documents(_)
\* the documents of at most n pieces, one per line
Documents(n) ==
    IF n = 0 THEN { << >> }
    ELSE IF n = 1 THEN Fragments
    ELSE LET shorter == Documents(n - 1)
         IN  shorter \cup { d \o << "\n" >> \o f : d \in shorter \ { << >> }, f \in Fragments }

\* the suffixes of the three formats, one of them in upper case
Suffixes == { <<".", "j", "s", "o", "n", "l">>, <<".", "J", "S", "O", "N">>, <<".", "t", "x", "t">> }

LoadPaths ==
    { [exists |-> TRUE, suffix |-> x, content |-> d] :
          x \in Suffixes, d \in Documents(MaxFragments) }

InitLoad ==
    /\ mode = "load"
    /\ pc = "call"
    /\ input_path \in LoadPaths
    /\ loaded = NothingLoaded
    /\ output_dir = NoDirectory /\ exit_code = NotReturned
    /\ trace = NoTrace
    /\ BuildLocals
    /\ PureIdle
    /\ runs = << >> /\ FlightIdle /\ EngineIdle

\* trace = load_trace(path)
CallLoadTrace ==
    /\ mode = "load" /\ pc = "call"
    /\ loaded' = load_trace(input_path)
    /\ pc' = IF loaded'.raised = "" THEN "returned" ELSE "raised"
    /\ UNCHANGED << mode, trace, sentences, clauses, phrases, s_idx, c_idx, p_idx, s_id,
                    c_id, nodes, edges, clause_records, i, j, metrics, text, limit, result >>
    /\ UNCHANGED << input_path, output_dir, exit_code, runs, flightvars, enginevars >>

NextLoad == CallLoadTrace

SpecLoad == InitLoad /\ [][NextLoad]_vars


(***************************************************************************)
(* geometry_viewer.main calling generate_geometry: the input check, the    *)
(* load, the builder above, then the three artifacts                       *)
(***************************************************************************)
\* whole trace documents next to the pieces above: a text trace of two sentences
\* with one event, and a JSON trace with two events
ViewerDocuments ==
    Fragments
    \cup { <<"p", "r", "o", "m", "p", "t", ":", " ", "w", "h", "y", "\n", "r", "e", "s", "p", "o", "n", "s", "e", ":", " ", "T", "h", "e", " ", "d", "o", "g", " ", "b", "a", "r", "k", "s", ".", " ", "T", "h", "e", " ", "d", "o", "g", " ", "d", "o", "e", "s", " ", "n", "o", "t", " ", "b", "a", "r", "k", ",", " ", "a", "n", "d", " ", "t", "h", "e", " ", "c", "a", "t", " ", "s", "l", "e", "e", "p", "s", ".", "\n", "e", "v", "e", "n", "t", "s", ":", " ", "[", "{", "\"", "k", "\"", ":", " ", "1", "}", "]">>,
           <<"{", "\"", "p", "r", "o", "m", "p", "t", "\"", ":", " ", "\"", "w", "h", "y", "\"", ",", " ", "\"", "r", "e", "s", "p", "o", "n", "s", "e", "\"", ":", " ", "\"", "T", "h", "e", " ", "d", "o", "g", " ", "b", "a", "r", "k", "s", "\"", ",", " ", "\"", "e", "v", "e", "n", "t", "s", "\"", ":", " ", "[", "{", "\"", "k", "\"", ":", " ", "1", "}", ",", " ", "{", "}", "]", "}">> }

ViewerPaths ==
    { [exists |-> TRUE, suffix |-> x, content |-> d] : x \in Suffixes, d \in ViewerDocuments }
    \cup { [exists |-> FALSE, suffix |-> x, content |-> << >>] : x \in Suffixes }

\* the names of the artifacts
GraphJson == "graph.json"
MetricsJson == "metrics.json"
GraphSvg == "graph.svg"

InitViewer ==
    /\ mode = "main"
    /\ pc = "start"
    /\ input_path \in ViewerPaths
    /\ loaded = NothingLoaded
    /\ output_dir = NoDirectory /\ exit_code = NotReturned
    /\ trace = NoTrace
    /\ BuildLocals
    /\ PureIdle
    /\ runs = << >> /\ FlightIdle /\ EngineIdle

\* main: if not args.input.exists(): return 2
RejectMissingInput ==
    /\ mode = "main" /\ pc = "start"
    /\ ~input_path.exists
    /\ exit_code' = 2
    /\ pc' = "returned"
    /\ UNCHANGED << mode, trace, sentences, clauses, phrases, s_idx, c_idx, p_idx, s_id,
                    c_id, nodes, edges, clause_records, i, j, metrics, text, limit, result >>
    /\ UNCHANGED << input_path, loaded, output_dir, runs, flightvars, enginevars >>

\* ObservableTrace as the builder reads it: of the events only their number
AsTrace(tr) == [prompt |-> tr.prompt, response |-> tr.response, events_count |-> Len(tr.events)]

\* generate_geometry: trace = load_trace(input_path); the builder starts when it
\* returns, the except clause of main is reached when it raises
LoadInput ==
    /\ mode = "main" /\ pc = "start"
    /\ input_path.exists
    /\ loaded' = load_trace(input_path)
    /\ IF loaded'.raised = ""
       THEN mode' = "build" /\ pc' = "start" /\ trace' = AsTrace(loaded'.trace)
       ELSE mode' = "main" /\ pc' = "except" /\ trace' = trace
    /\ UNCHANGED << sentences, clauses, phrases, s_idx, c_idx, p_idx, s_id,
                    c_id, nodes, edges, clause_records, i, j, metrics, text, limit, result >>
    /\ UNCHANGED << input_path, output_dir, exit_code, runs, flightvars, enginevars >>

\* an except clause that lets every error through
CaughtNothing(raised) == FALSE

\* except module.TraceParseError
Caught(raised) == raised = "TraceParseError"

\* main: except module.TraceParseError as exc: ... return 1
CatchTraceParseError ==
    /\ mode = "main" /\ pc = "except"
    /\ Caught(loaded.raised)
    /\ exit_code' = 1
    /\ pc' = "returned"
    /\ UNCHANGED << mode, trace, sentences, clauses, phrases, s_idx, c_idx, p_idx, s_id,
                    c_id, nodes, edges, clause_records, i, j, metrics, text, limit, result >>
    /\ UNCHANGED << input_path, loaded, output_dir, runs, flightvars, enginevars >>

\* main: any other error leaves main without a return value
Propagate ==
    /\ mode = "main" /\ pc = "except"
    /\ ~Caught(loaded.raised)
    /\ pc' = "uncaught"
    /\ UNCHANGED << mode, trace, sentences, clauses, phrases, s_idx, c_idx, p_idx, s_id,
                    c_id, nodes, edges, clause_records, i, j, metrics, text, limit, result >>
    /\ UNCHANGED << input_path, loaded, output_dir, exit_code, runs, flightvars, enginevars >>

\* generate_geometry: output_dir.mkdir(parents=True, exist_ok=True)
MakeDirectory ==
    /\ mode = "build" /\ pc = "done"
    /\ input_path.exists
    /\ output_dir' = [output_dir EXCEPT !.exists = TRUE]
    /\ mode' = "persist"
    /\ pc' = GraphJson
    /\ UNCHANGED << trace, sentences, clauses, phrases, s_idx, c_idx, p_idx, s_id,
                    c_id, nodes, edges, clause_records, i, j, metrics, text, limit, result >>
    /\ UNCHANGED << input_path, loaded, exit_code, runs, flightvars, enginevars >>

\* generate_geometry: graph_json_path.write_text(json.dumps(graph, indent=2))
WriteGraphJson ==
    /\ mode = "persist" /\ pc = GraphJson
    /\ output_dir' = [output_dir EXCEPT !.files = @ \cup { GraphJson }]
    /\ pc' = MetricsJson
    /\ UNCHANGED << mode, trace, sentences, clauses, phrases, s_idx, c_idx, p_idx, s_id,
                    c_id, nodes, edges, clause_records, i, j, metrics, text, limit, result >>
    /\ UNCHANGED << input_path, loaded, exit_code, runs, flightvars, enginevars >>

\* generate_geometry: metrics_path.write_text(json.dumps(metrics, indent=2))
WriteMetricsJson ==
    /\ mode = "persist" /\ pc = MetricsJson
    /\ output_dir' = [output_dir EXCEPT !.files = @ \cup { MetricsJson }]
    /\ pc' = GraphSvg
    /\ UNCHANGED << mode, trace, sentences, clauses, phrases, s_idx, c_idx, p_idx, s_id,
                    c_id, nodes, edges, clause_records, i, j, metrics, text, limit, result >>
    /\ UNCHANGED << input_path, loaded, exit_code, runs, flightvars, enginevars >>

\* generate_geometry: render_svg(graph, svg_path) and the return to main
RenderSvg ==
    /\ mode = "persist" /\ pc = GraphSvg
    /\ output_dir' = [output_dir EXCEPT !.files = @ \cup { GraphSvg }]
    /\ pc' = "generated"
    /\ UNCHANGED << mode, trace, sentences, clauses, phrases, s_idx, c_idx, p_idx, s_id,
                    c_id, nodes, edges, clause_records, i, j, metrics, text, limit, result >>
    /\ UNCHANGED << input_path, loaded, exit_code, runs, flightvars, enginevars >>

\* main: the artifacts are listed, return 0
ReturnZero ==
    /\ mode = "persist" /\ pc = "generated"
    /\ exit_code' = 0
    /\ mode' = "main"
    /\ pc' = "returned"
    /\ UNCHANGED << trace, sentences, clauses, phrases, s_idx, c_idx, p_idx, s_id,
                    c_id, nodes, edges, clause_records, i, j, metrics, text, limit, result >>
    /\ UNCHANGED << input_path, loaded, output_dir, runs, flightvars, enginevars >>

NextViewer ==
    \/ RejectMissingInput
    \/ LoadInput
    \/ CatchTraceParseError
    \/ Propagate
    \/ Next
    \/ MakeDirectory
    \/ WriteGraphJson
    \/ WriteMetricsJson
    \/ RenderSvg
    \/ ReturnZero

SpecViewer == InitViewer /\ [][NextViewer]_vars


(***************************************************************************)
(* build_thinking_geometry called again and again: every call starts from  *)
(* its own empty lists, and what it returned is kept for comparison        *)
(***************************************************************************)
\* the number of calls in one behaviour
MaxRuns == 3

\* the traces the calls are made on: the scenario, a trace with a repeated and a
\* negated clause, and a one-clause trace with two events
RunTraces ==
    { [prompt |-> ScenarioPrompt, response |-> ScenarioResponse, events_count |-> 0],
      [prompt |-> GeneratedPrompt,
       response |-> <<"T", "h", "e", " ", "d", "o", "g", " ", "b", "a", "r", "k", "s", ".", " ", "T", "h", "e", " ", "d", "o", "g", " ", "b", "a", "r", "k", "s", ",", " ", "a", "n", "d", " ", "t", "h", "e", " ", "d", "o", "g", " ", "d", "o", "e", "s", " ", "n", "o", "t", " ", "b", "a", "r", "k", ".">>,
       events_count |-> 0],
      [prompt |-> <<"D", "o", " ", "c", "a", "t", "s", " ", "s", "l", "e", "e", "p", "?">>,
       response |-> <<"C", "a", "t", "s", " ", "s", "l", "e", "e", "p">>,
       events_count |-> 2] }

InitRuns ==
    /\ mode = "build"
    /\ pc = "start"
    /\ trace \in RunTraces
    /\ BuildLocals
    /\ PureIdle
    /\ OutsideIdle

\* a list that outlives the call: the next call would find the old entries
KeptList(old) == old

\* nodes: list = [] / edges: list = [] / clause_records: list = []
NewList(old) == << >>

\* what a call returned: graph = {"nodes": nodes, "edges": edges} and metrics
RunResult(tr, ns, es, ms) ==
    [trace |-> tr, graph |-> [nodes |-> ns, edges |-> es], metrics |-> ms]

\* the call has returned; build_thinking_geometry is called on another trace
StartRun ==
    /\ mode = "build" /\ pc = "done"
    /\ Len(runs) + 1 < MaxRuns
    /\ runs' = Append(runs, RunResult(trace, nodes, edges, metrics))
    /\ trace' \in RunTraces
    /\ nodes' = NewList(nodes)
    /\ edges' = NewList(edges)
    /\ clause_records' = NewList(clause_records)
    /\ sentences' = << >> /\ clauses' = << >> /\ phrases' = << >>
    /\ s_idx' = 0 /\ c_idx' = 0 /\ p_idx' = 0
    /\ s_id' = << >> /\ c_id' = << >>
    /\ i' = 0 /\ j' = 0
    /\ metrics' = << >>
    /\ pc' = "start"
    /\ UNCHANGED << mode, text, limit, result >>
    /\ UNCHANGED << viewervars, flightvars, enginevars >>

NextRuns == Next \/ StartRun

SpecRuns == InitRuns /\ [][NextRuns]_vars


(***************************************************************************)
(* compute_metrics on its own: the edge list is drawn in the initial state *)
(***************************************************************************)
\* the number of edges of a drawn graph
MaxEdges == 4

\* the relations an edge can carry
Relations == { "supports", "elaborates", "contradicts", "repeats" }

RECURSIVE EdgeLists(_)
\* the edge lists of at most n edges between two clause nodes, every relation
\* in every position
EdgeLists(n) ==
    IF n = 0 THEN { << >> }
    ELSE LET shorter == EdgeLists(n - 1)
         IN  shorter \cup { add_edge(es, NodeId(0), NodeId(1), r, 1000) :
                                es \in { x \in shorter : Len(x) = n - 1 }, r \in Relations }

InitMetrics ==
    /\ mode = "metrics"
    /\ pc = "call"
    /\ trace = NoTrace
    /\ nodes = add_node(add_node(<< >>, [type |-> "clause", text |-> << "a" >>,
                                         sentence_index |-> 0, clause_index |-> 0]),
                        [type |-> "clause", text |-> << "b" >>,
                         sentence_index |-> 0, clause_index |-> 1])
    /\ edges \in EdgeLists(MaxEdges)
    /\ sentences = << >> /\ clauses = << >> /\ phrases = << >>
    /\ s_idx = 0 /\ c_idx = 0 /\ p_idx = 0
    /\ s_id = << >> /\ c_id = << >>
    /\ clause_records = << >>
    /\ i = 0 /\ j = 0
    /\ metrics = << >>
    /\ PureIdle
    /\ OutsideIdle

\* metrics = compute_metrics(trace, nodes, edges)
CallComputeMetrics ==
    /\ mode = "metrics" /\ pc = "call"
    /\ metrics' = compute_metrics(trace, nodes, edges)
    /\ pc' = "returned"
    /\ UNCHANGED << mode, trace, sentences, clauses, phrases, s_idx, c_idx, p_idx, s_id,
                    c_id, nodes, edges, clause_records, i, j, text, limit, result >>
    /\ UNCHANGED outside

NextMetrics == CallComputeMetrics

SpecMetrics == InitMetrics /\ [][NextMetrics]_vars


(***************************************************************************)
(* flight_controller.run_loop                                              *)
(***************************************************************************)
\* the largest max_iterations a run is started with
MaxIterations == 2

\* what a stream file can hold: nothing; a repeated concrete word; a repeated
\* word that is not concrete; three words with irregular white space; a text that
\* holds a nonsense phrase only once its white space is compressed; a nonsense
\* phrase; twenty-five words of which only the last is concrete
FileContents ==
    { << >>,
      <<"l", "o", "g", " ", "l", "o", "g">>,
      <<"d", "a", "t", "a", " ", "d", "a", "t", "a">>,
      <<"L", "o", "g", " ", " ", "t", "h", "e", "\t", "d", "a", "t", "a">>,
      <<"l", "o", "g", " ", "d", "a", "t", "a", " ", " ", "b", "e", "c", "o", "m", "e", "s", " ", "p", "u", "r", "p", "l", "e">>,
      <<"W", "i", "n", "g", "s", " ", "a", "r", "e", " ", "m", "a", "d", "e", " ", "o", "f", " ", "d", "r", "e", "a", "m", "s">>,
      <<"a", " ", "b", " ", "c", " ", "d", " ", "e", " ", "f", " ", "g", " ", "h", " ", "i", " ", "j", " ", "k", " ", "l", " ", "m", " ", "n", " ", "o", " ", "p", " ", "q", " ", "r", " ", "s", " ", "t", " ", "u", " ", "v", " ", "w", " ", "x", " ", "l", "o", "g">> }

\* the stream directory before the run: each name absent or holding a file
\* with one of the contents, the hidden file empty
StreamsOver(contents) ==
    { dir \in [FileNames -> { Absent } \cup { [there |-> TRUE, content |-> c] : c \in contents }] :
          \A n \in FileNames : Hidden(n) /\ dir[n].there => dir[n].content = << >> }

Streams == StreamsOver(FileContents)

\* run_loop after ensure_dirs(), adapters = EngineAdapters(), iterations = 0
InitFlight ==
    /\ mode = "flight"
    /\ pc = "poll"
    /\ once \in BOOLEAN
    /\ max_iterations \in 0..MaxIterations
    /\ iterations = 0
    /\ files = << >>
    /\ stream \in Streams
    /\ glitch_log = EmptyDirectory /\ lift_protocols = EmptyDirectory
    /\ reports = << >> /\ processed = << >> /\ current = NoFile
    /\ trace = NoTrace
    /\ BuildLocals
    /\ PureIdle
    /\ ViewerIdle /\ runs = << >> /\ EngineIdle

\* files = stream_files(); if files:
Poll ==
    /\ mode = "flight" /\ pc = "poll"
    /\ files' = stream_files(stream)
    /\ pc' = IF files' # << >> THEN "files" ELSE "count"
    /\ UNCHANGED << mode, trace, sentences, clauses, phrases, s_idx, c_idx, p_idx, s_id,
                    c_id, nodes, edges, clause_records, i, j, metrics, text, limit, result >>
    /\ UNCHANGED << viewervars, runs, enginevars >>
    /\ UNCHANGED << once, max_iterations, iterations, stream, glitch_log, lift_protocols,
                    reports, processed, current >>

\* for f in files: process_file(f, adapters) reads the file and measures it:
\* content = path.read_text(...); entropy = adapters.entropy(content)
Measure ==
    /\ mode = "flight" /\ pc = "files"
    /\ files # << >>
    /\ current' = [NoFile EXCEPT !.file = Head(files),
                                 !.content = stream[Head(files)].content,
                                 !.final_content = stream[Head(files)].content,
                                 !.entropy = entropy(stream[Head(files)].content)]
    /\ pc' = "measured"
    /\ UNCHANGED << mode, trace, sentences, clauses, phrases, s_idx, c_idx, p_idx, s_id,
                    c_id, nodes, edges, clause_records, i, j, metrics, text, limit, result >>
    /\ UNCHANGED << viewervars, runs, enginevars >>
    /\ UNCHANGED << once, max_iterations, iterations, files, stream, glitch_log,
                    lift_protocols, reports, processed >>

\* process_file: if entropy.label == "HIGH": rotated_content = adapters.torque(content);
\* final_content = rotated_content
Rotate ==
    /\ mode = "flight" /\ pc = "measured"
    /\ current' = IF current.entropy.label = "HIGH"
                  THEN [current EXCEPT !.torqued = TRUE,
                                       !.rotated_content = torque(current.content),
                                       !.final_content = torque(current.content)]
                  ELSE current
    /\ pc' = "rotated"
    /\ UNCHANGED << mode, trace, sentences, clauses, phrases, s_idx, c_idx, p_idx, s_id,
                    c_id, nodes, edges, clause_records, i, j, metrics, text, limit, result >>
    /\ UNCHANGED << viewervars, runs, enginevars >>
    /\ UNCHANGED << once, max_iterations, iterations, files, stream, glitch_log,
                    lift_protocols, reports, processed >>

\* process_file: grounded, reason = adapters.veto(final_content)
Veto ==
    /\ mode = "flight" /\ pc = "rotated"
    /\ current' = [current EXCEPT !.grounded = veto(current.final_content).grounded,
                                  !.reason = veto(current.final_content).reason]
    /\ pc' = "judged"
    /\ UNCHANGED << mode, trace, sentences, clauses, phrases, s_idx, c_idx, p_idx, s_id,
                    c_id, nodes, edges, clause_records, i, j, metrics, text, limit, result >>
    /\ UNCHANGED << viewervars, runs, enginevars >>
    /\ UNCHANGED << once, max_iterations, iterations, files, stream, glitch_log,
                    lift_protocols, reports, processed >>

\* process_file: the status of a file that is not lifted
FailureStatus(grounded) == IF ~grounded THEN "VETO_FAIL" ELSE "ENTROPY_HIGH"

\* process_file: the failure report; the time stamp in its name and body is left out
FailureReport(c) ==
    [file |-> c.file, status |-> FailureStatus(c.grounded),
     entropy_score |-> c.entropy.score, entropy_label |-> c.entropy.label,
     grounded |-> c.grounded, veto_reason |-> c.reason, torqued |-> c.torqued,
     torque_output_preview |->
         SubSeq(c.rotated_content, 1,
                IF Len(c.rotated_content) < PreviewLength
                THEN Len(c.rotated_content) ELSE PreviewLength)]

\* process_file: the file is moved to the lift directory (and rewritten if it was
\* rotated) or to the glitch directory with a failure report; the dictionary is
\* returned and the for loop goes on
Route ==
    /\ mode = "flight" /\ pc = "judged"
    /\ LET name   == current.file
           moved  == stream[name]
           lifted == Lifted(current.entropy.label, current.grounded)
       IN  /\ stream' = [stream EXCEPT ![name] = Absent]
           /\ lift_protocols' =
                  IF ~lifted THEN lift_protocols
                  ELSE [lift_protocols EXCEPT ![name] =
                           IF current.torqued
                           THEN [there |-> TRUE, content |-> current.rotated_content]
                           ELSE moved]
           /\ glitch_log' = IF lifted THEN glitch_log
                            ELSE [glitch_log EXCEPT ![name] = moved]
           /\ reports' = IF lifted THEN reports ELSE Append(reports, FailureReport(current))
           /\ processed' =
                  Append(processed,
                         [file |-> name, entropy_score |-> current.entropy.score,
                          entropy_label |-> current.entropy.label,
                          grounded |-> current.grounded, veto_reason |-> current.reason,
                          status |-> IF lifted THEN "SUCCESS_LIFTED"
                                     ELSE FailureStatus(current.grounded)])
    /\ files' = Tail(files)
    /\ current' = NoFile
    /\ pc' = "files"
    /\ UNCHANGED << mode, trace, sentences, clauses, phrases, s_idx, c_idx, p_idx, s_id,
                    c_id, nodes, edges, clause_records, i, j, metrics, text, limit, result >>
    /\ UNCHANGED << viewervars, runs, enginevars >>
    /\ UNCHANGED << once, max_iterations, iterations >>

\* the for loop is exhausted: if once: break
EndFiles ==
    /\ mode = "flight" /\ pc = "files"
    /\ files = << >>
    /\ pc' = IF once THEN "exited" ELSE "count"
    /\ UNCHANGED << mode, trace, sentences, clauses, phrases, s_idx, c_idx, p_idx, s_id,
                    c_id, nodes, edges, clause_records, i, j, metrics, text, limit, result >>
    /\ UNCHANGED << viewervars, runs, enginevars, flightvars >>

\* iterations += 1; if max_iterations is not None and iterations >= max_iterations:
\* break.  The counter stops at MaxIterations, beyond which no comparison changes.
CountIteration ==
    /\ mode = "flight" /\ pc = "count"
    /\ iterations' = IF iterations < MaxIterations THEN iterations + 1 ELSE iterations
    /\ pc' = IF max_iterations # 0 /\ iterations' >= max_iterations THEN "exited" ELSE "sleep"
    /\ UNCHANGED << mode, trace, sentences, clauses, phrases, s_idx, c_idx, p_idx, s_id,
                    c_id, nodes, edges, clause_records, i, j, metrics, text, limit, result >>
    /\ UNCHANGED << viewervars, runs, enginevars >>
    /\ UNCHANGED << once, max_iterations, files, stream, glitch_log, lift_protocols,
                    reports, processed, current >>

\* time.sleep(poll_seconds), then the next turn of while True
Sleep ==
    /\ mode = "flight" /\ pc = "sleep"
    /\ pc' = "poll"
    /\ UNCHANGED << mode, trace, sentences, clauses, phrases, s_idx, c_idx, p_idx, s_id,
                    c_id, nodes, edges, clause_records, i, j, metrics, text, limit, result >>
    /\ UNCHANGED << viewervars, runs, enginevars, flightvars >>

NextFlight ==
    \/ Poll
    \/ Measure
    \/ Rotate
    \/ Veto
    \/ Route
    \/ EndFiles
    \/ CountIteration
    \/ Sleep

SpecFlight == InitFlight /\ [][NextFlight]_vars

\* short files for the runs whose end is in question: nothing, a repeated
\* concrete word, a nonsense phrase
LoopContents ==
    { << >>,
      <<"l", "o", "g", " ", "l", "o", "g">>,
      <<"e", "a", "t", " ", "t", "h", "e", " ", "c", "l", "o", "u", "d", "s">> }

LoopStreams == StreamsOver(LoopContents)

InitLoop ==
    /\ mode = "flight"
    /\ pc = "poll"
    /\ once \in BOOLEAN
    /\ max_iterations \in 0..MaxIterations
    /\ iterations = 0
    /\ files = << >>
    /\ stream \in LoopStreams
    /\ glitch_log = EmptyDirectory /\ lift_protocols = EmptyDirectory
    /\ reports = << >> /\ processed = << >> /\ current = NoFile
    /\ trace = NoTrace
    /\ BuildLocals
    /\ PureIdle
    /\ ViewerIdle /\ runs = << >> /\ EngineIdle

\* the interpreter keeps running the loop while it has a step to take
SpecLoop == InitLoop /\ [][NextFlight]_vars /\ WF_vars(NextFlight)




(***************************************************************************)
(* manifold_engine.ResonantManifoldEngine.  A float is [nan, v]: not a      *)
(* number, or the value v in hundredths.                                   *)
(***************************************************************************)
\* the number of states the history of a run can hold
MaxHistory == 2

NaN == [nan |-> TRUE, v |-> 0]
Float(v) == [nan |-> FALSE, v |-> v]

\* a > b and a < b on floats: False when either side is not a number
Greater(a, b) == ~a.nan /\ ~b.nan /\ a.v > b.v
Less(a, b) == ~a.nan /\ ~b.nan /\ a.v < b.v

\* __init__: the default limits, in hundredths
max_drift == 150
max_entropy == 45
min_coherence == 70

\* the reference signal of the engine of the model
reference_signal == << Float(0), Float(0) >>

RECURSIVE SquaredDistance(_, _, _)
\* the sum of the squared differences of the components from k on, in
\* ten-thousandths
SquaredDistance(p, q, k) ==
    IF k > Len(p) THEN 0
    ELSE (p[k].v - q[k].v) * (p[k].v - q[k].v) + SquaredDistance(p, q, k + 1)

\* drift > self.max_drift for drift = dist(vector, reference_signal): dist is
\* not a number as soon as a component is, and the comparison is False then
DriftExceeds(vector, bound) ==
    /\ \A k \in 1..Len(vector) : ~vector[k].nan /\ ~reference_signal[k].nan
    /\ SquaredDistance(vector, reference_signal, 1) > bound * bound

\* state.entropy > self.max_entropy
EntropyExceeds(value, bound) == Greater(value, Float(bound))

\* evaluate raises EntropyDriftError for this state
Rejected(state) ==
    \/ Len(state.vector) # Len(reference_signal)
    \/ DriftExceeds(state.vector, max_drift)
    \/ EntropyExceeds(state.entropy, max_entropy)
    \/ Less(state.coherence, Float(min_coherence))

\* the states evaluate is called with: vectors of one and two components, on
\* the reference, near it, far from it and with a component that is not a
\* number; entropy and coherence at a limit, beyond it and not a number
ManifoldStates ==
    { [vector |-> x, entropy |-> e, coherence |-> c, timestamp |-> Float(0)] :
          x \in { << Float(0) >>, << Float(0), Float(0) >>, << Float(100), Float(100) >>,
                  << Float(200), Float(0) >>, << NaN, Float(0) >> },
          e \in { Float(45), Float(46), NaN },
          c \in { Float(70), Float(69), NaN } }

\* engine = ResonantManifoldEngine(reference_signal)
InitEngine ==
    /\ mode = "engine"
    /\ pc = "idle"
    /\ history = << >>
    /\ evaluated = NoCall
    /\ trace = NoTrace
    /\ BuildLocals
    /\ PureIdle
    /\ ViewerIdle /\ runs = << >> /\ FlightIdle

\* engine.evaluate(state): EntropyDriftError, or the state is appended
Evaluate ==
    /\ mode = "engine"
    /\ Len(history) < MaxHistory
    /\ \E state \in ManifoldStates :
           /\ evaluated' = [called |-> TRUE, raised |-> Rejected(state), state |-> state]
           /\ history' = IF Rejected(state) THEN history ELSE Append(history, state)
    /\ UNCHANGED << corevars, viewervars, runs, flightvars >>

NextEngine == Evaluate

SpecEngine == InitEngine /\ [][NextEngine]_vars


(***************************************************************************)
(* Properties                                                              *)
(***************************************************************************)
Ordinal(id) == id[2]
Built == mode = "build" /\ pc = "done"
ClausePairs ==
    { pq \in (1..Len(clause_records)) \X (1..Len(clause_records)) : pq[1] < pq[2] }
\* the positions in `edges` of the edges from clause p to clause q
EdgesBetween(p, q) ==
    { k \in 1..Len(edges) : /\ edges[k].source = clause_records[p].id
                            /\ edges[k].target = clause_records[q].id }
Shared(p, q) == Cardinality(clause_records[p].tokens \cap clause_records[q].tokens)
Joint(p, q) == Cardinality(clause_records[p].tokens \cup clause_records[q].tokens)
\* the similarity of clauses p and q (0 when a token set is empty, else
\* Shared/Joint) is at least percent/100, percent > 0
SimilarityAtLeast(p, q, percent) ==
    /\ clause_records[p].tokens # {} /\ clause_records[q].tokens # {}
    /\ 100 * Shared(p, q) >= percent * Joint(p, q)

\* the four rule conditions, as the specification numbers them
Rule1(p, q) == SimilarityAtLeast(p, q, 72)
Rule2(p, q) == /\ clause_records[p].negated # clause_records[q].negated
               /\ SimilarityAtLeast(p, q, 22)
Rule3(p, q) == /\ clause_records[q].sentence_index > clause_records[p].sentence_index
               /\ SimilarityAtLeast(p, q, 14)
Rule4(p, q) == SimilarityAtLeast(p, q, 26)

\* the relation the first matching rule gives the pair, "none" if there is none
FirstMatchingRule(p, q) ==
    IF Shared(p, q) = 0 THEN "none"
    ELSE IF Rule1(p, q) THEN "repeats"
    ELSE IF Rule2(p, q) THEN "contradicts"
    ELSE IF Rule3(p, q) THEN "elaborates"
    ELSE IF Rule4(p, q) THEN "supports"
    ELSE "none"

\* C1: in a built graph every clause pair (p, q), p < q, has exactly the relation
\* edge of the first matching rule of the cascade (repeats at s >= 0.72, else
\* contradicts at differing negation and s >= 0.22, else elaborates at a later
\* sentence and s >= 0.14, else supports at s >= 0.26), and no relation edge when
\* s = 0 or no rule matches; no pair has more than one relation edge.
C1_FirstMatchingRuleDecides ==
    Built =>
        \A pq \in ClausePairs :
            LET found  == EdgesBetween(pq[1], pq[2])
                wanted == FirstMatchingRule(pq[1], pq[2])
            IN  /\ EdgesBetween(pq[2], pq[1]) = {}
                /\ IF wanted = "none" THEN found = {}
                   ELSE /\ Cardinality(found) = 1
                        /\ \A k \in found : edges[k].relation = wanted

\* a built graph with a pair that satisfies both the elaborates and the supports
\* condition and carries the elaborates edge, and a pair with s > 0 and no edge
C1_Witness ==
    /\ Built
    /\ \E pq \in ClausePairs :
          /\ ~Rule1(pq[1], pq[2]) /\ ~Rule2(pq[1], pq[2])
          /\ Rule3(pq[1], pq[2]) /\ Rule4(pq[1], pq[2])
          /\ \E k \in EdgesBetween(pq[1], pq[2]) : edges[k].relation = "elaborates"
    /\ \E pq \in ClausePairs :
          /\ Shared(pq[1], pq[2]) > 0
          /\ EdgesBetween(pq[1], pq[2]) = {}

\* the positions in `nodes` of the nodes with this id
PositionsOf(id) == { k \in 1..Len(nodes) : nodes[k].id = id }

\* C2: every edge's source node was created before its target node (both exist,
\* the source's ordinal is strictly smaller); a relation edge between two clauses
\* goes from the earlier-created clause to the later-created one.
C2_SourcePrecedesTarget ==
    mode = "build" =>
        /\ \A k \in 1..Len(edges) :
              /\ Ordinal(edges[k].source) < Ordinal(edges[k].target)
              /\ \E s \in PositionsOf(edges[k].source) :
                     \E t \in PositionsOf(edges[k].target) : s < t
        /\ \A pq \in ClausePairs : EdgesBetween(pq[2], pq[1]) = {}

\* a built graph with a contradicts edge from a negated clause to a clause that is
\* not negated, and an edge between two clauses of one sentence
C2_Witness ==
    /\ Built
    /\ \E pq \in ClausePairs :
          /\ clause_records[pq[1]].negated /\ ~clause_records[pq[2]].negated
          /\ \E k \in EdgesBetween(pq[1], pq[2]) : edges[k].relation = "contradicts"
    /\ \E pq \in ClausePairs :
          /\ clause_records[pq[1]].sentence_index = clause_records[pq[2]].sentence_index
          /\ EdgesBetween(pq[1], pq[2]) # {}

\* C3: at every point of the construction the node ids are n0, n1, ..., n(k-1) and
\* the edge ids e0, e1, ..., e(m-1), in list order.
C3_IdsContiguous ==
    mode = "build" =>
        /\ \A k \in 1..Len(nodes) : nodes[k].id = << "n", k - 1 >>
        /\ \A k \in 1..Len(edges) : edges[k].id = << "e", k - 1 >>

\* a built graph of at least five nodes with at least two relation edges
C3_Witness ==
    /\ Built
    /\ Len(nodes) >= 5
    /\ Cardinality({ k \in 1..Len(edges) :
                       \E pq \in ClausePairs : k \in EdgesBetween(pq[1], pq[2]) }) >= 2

\* the nodes among the first k that are not sentence nodes: clauses and keyphrases
StructuralUpTo(k) == Cardinality({ m \in 1..k : nodes[m].type # "sentence" })
\* the position of the last node of a type before position k, 0 if there is none
LastBefore(k, type) ==
    LET before == { m \in 1..(k - 1) : nodes[m].type = type }
    IN  IF before = {} THEN 0 ELSE CHOOSE m \in before : \A n \in before : n <= m
\* the clause pair a relation edge connects
PairOfEdge(k) ==
    CHOOSE pq \in ClausePairs : k \in EdgesBetween(pq[1], pq[2])
PairBefore(a, b) == a[1] < b[1] \/ (a[1] = b[1] /\ a[2] < b[2])

\* C4: the graph is assembled in the stated order.  Sentence nodes follow the
\* document order; a clause node comes after its sentence node and a keyphrase
\* node after its clause node, and the edge created with the m-th such node is the
\* m-th edge of the list (sentence -> clause, elaborates, 0.8; clause -> keyphrase,
\* supports, 0.6); every further edge is a clause-to-clause relation edge, appended
\* when all nodes exist, in ascending (i, j) order.
C4_CreationOrder ==
    mode = "build" =>
        LET document   == _split_sentences(trace.response)
            structural == StructuralUpTo(Len(nodes))
            relational == (structural + 1)..Len(edges)
        IN  /\ \A k \in 1..Len(nodes) :
                  LET m == StructuralUpTo(k)
                  IN  CASE nodes[k].type = "sentence" ->
                             /\ nodes[k].sentence_index = k - 1 - m
                             /\ nodes[k].text = document[k - m]
                        [] nodes[k].type = "clause" ->
                             LET s == LastBefore(k, "sentence")
                             IN  /\ s > 0
                                 /\ m <= Len(edges)
                                 /\ edges[m].source = nodes[s].id
                                 /\ edges[m].target = nodes[k].id
                                 /\ edges[m].relation = "elaborates"
                                 /\ edges[m].weight = 800
                        [] nodes[k].type = "keyphrase" ->
                             LET s == LastBefore(k, "sentence")
                                 c == LastBefore(k, "clause")
                             IN  /\ c > s /\ s > 0
                                 /\ m <= Len(edges)
                                 /\ edges[m].source = nodes[c].id
                                 /\ edges[m].target = nodes[k].id
                                 /\ edges[m].relation = "supports"
                                 /\ edges[m].weight = 600
            /\ relational # {} =>
                  /\ pc \in { "relations", "done" }
                  /\ Len(nodes) - structural = Len(document)
            /\ \A k \in relational :
                  \E pq \in ClausePairs : k \in EdgesBetween(pq[1], pq[2])
            /\ \A k1, k2 \in relational :
                  k1 < k2 => PairBefore(PairOfEdge(k1), PairOfEdge(k2))

\* a built graph of two sentences or more, with a keyphrase node and with relation
\* edges of two different left clauses
C4_Witness ==
    /\ Built
    /\ Cardinality({ k \in 1..Len(nodes) : nodes[k].type = "sentence" }) >= 2
    /\ \E k \in 1..Len(nodes) : nodes[k].type = "keyphrase"
    /\ \E a, b \in ClausePairs :
          /\ a[1] < b[1]
          /\ EdgesBetween(a[1], a[2]) # {}
          /\ EdgesBetween(b[1], b[2]) # {}

IsScenario == trace.prompt = ScenarioPrompt /\ trace.response = ScenarioResponse

\* C5: the scenario trace yields two sentence nodes, one clause per sentence, the
\* first clause not negated and the second negated, a contradicts edge between the
\* two clauses, and contradiction_count = 1.
C5_ScenarioContradiction ==
    (Built /\ IsScenario) =>
        /\ Cardinality({ k \in 1..Len(nodes) : nodes[k].type = "sentence" }) = 2
        /\ Len(clause_records) = 2
        /\ clause_records[1].sentence_index = 0 /\ ~clause_records[1].negated
        /\ clause_records[2].sentence_index = 1 /\ clause_records[2].negated
        /\ \E k \in EdgesBetween(1, 2) : edges[k].relation = "contradicts"
        /\ metrics.metrics.contradiction_count = 1

\* the graph of the scenario trace, built, with its second clause cut at "However,"
C5_Witness ==
    /\ Built /\ IsScenario
    /\ Len(clause_records) = 2
    /\ \E k \in 1..Len(nodes) :
          /\ nodes[k].type = "sentence" /\ nodes[k].sentence_index = 1
          /\ Len(clause_records[2].text) < Len(nodes[k].text)

\* two occurrences of one clause text have similarity 1.0, a repeats edge between
\* them, and make repetition_ratio positive
RepeatedAsClaimed(p, q) ==
    /\ LET overlap == _jaccard(clause_records[p].tokens, clause_records[q].tokens)
       IN  overlap[1] > 0 /\ overlap[1] = overlap[2]
    /\ \E k \in EdgesBetween(p, q) : edges[k].relation = "repeats" /\ edges[k].weight = 1000
    /\ metrics.metrics.repetition_ratio > 0

\* C6 as claimed: for every clause text, tokenless and all-stopword texts included,
\* two occurrences have similarity 1.0, a repeats edge and repetition_ratio > 0.
C6_AnyRepeatedClause ==
    Built =>
        \A pq \in ClausePairs :
            clause_records[pq[1]].text = clause_records[pq[2]].text
                => RepeatedAsClaimed(pq[1], pq[2])

\* C6, amended: the same for every clause text that has at least one token that is
\* not a stopword.
C6_RepeatedClauseWithTokens ==
    Built =>
        \A pq \in ClausePairs :
            /\ clause_records[pq[1]].text = clause_records[pq[2]].text
            /\ clause_records[pq[1]].tokens # {}
            => RepeatedAsClaimed(pq[1], pq[2])

\* a built graph in which a clause text with a non-stopword token occurs twice
C6_Witness ==
    /\ Built
    /\ \E pq \in ClausePairs :
          /\ clause_records[pq[1]].text = clause_records[pq[2]].text
          /\ clause_records[pq[1]].tokens # {}

RuleHolds(r, p, q) ==
    CASE r = 1 -> Rule1(p, q)
      [] r = 2 -> Rule2(p, q)
      [] r = 3 -> Rule3(p, q)
      [] r = 4 -> Rule4(p, q)
RulesHolding(p, q) == { r \in 1..4 : RuleHolds(r, p, q) }
RuleRelation == << "repeats", "contradicts", "elaborates", "supports" >>

\* C7 as claimed: for a clause pair of similarity > 0 at most one of the four rule
\* conditions is true.
C7_RulesMutuallyExclusive ==
    Built =>
        \A pq \in ClausePairs :
            Shared(pq[1], pq[2]) > 0 => Cardinality(RulesHolding(pq[1], pq[2])) <= 1

\* the relation loops have dealt with the pair (p, q)
Classified(p, q) ==
    \/ pc = "done"
    \/ pc = "relations" /\ (p - 1 < i \/ (p - 1 = i /\ q - 1 < j))

\* C7, amended: the rule conditions overlap, and the order of the cascade is what
\* makes the outcome exclusive: a clause pair never has more than one relation
\* edge, and a pair for which several conditions are true has, once classified,
\* the edge of the first of them.
C7_CascadeMakesExclusive ==
    mode = "build" =>
        \A pq \in ClausePairs :
            LET holding == RulesHolding(pq[1], pq[2])
                found   == EdgesBetween(pq[1], pq[2])
            IN  /\ Cardinality(found) <= 1
                /\ (Classified(pq[1], pq[2]) /\ Cardinality(holding) >= 2) =>
                       \E k \in found :
                           edges[k].relation =
                               RuleRelation[CHOOSE r \in holding : \A o \in holding : r <= o]

\* a pair for which three conditions are true, classified, while the relation loops
\* are still running
C7_Witness ==
    /\ mode = "build" /\ pc = "relations"
    /\ \E pq \in ClausePairs :
          /\ Classified(pq[1], pq[2])
          /\ Cardinality(RulesHolding(pq[1], pq[2])) >= 3
          /\ EdgesBetween(pq[1], pq[2]) # {}

\* position k of s lies in a whole word (a maximal run of \w characters) that
\* spells one of the conjunctions, in any case
InConjunction(s, k) ==
    /\ IsWordChar(s[k])
    /\ LET first == CHOOSE a \in 1..k :
                        /\ \A m \in a..k : IsWordChar(s[m])
                        /\ (a = 1 \/ ~IsWordChar(s[a - 1]))
           last  == CHOOSE b \in k..Len(s) :
                        /\ \A m \in k..b : IsWordChar(s[m])
                        /\ (b = Len(s) \/ ~IsWordChar(s[b + 1]))
       IN  Lower(SubSeq(s, first, last)) \in Range(Conjunctions)
\* splitting s on ; , : ( ) and on the conjunction words leaves no non-empty
\* fragment: s is made of separators, conjunctions and stripped characters only
NoFragmentLeft(s) ==
    \A k \in 1..Len(s) :
        s[k] \in CoarseSeparators \cup ClauseStripChars \/ InConjunction(s, k)

\* C8: every sentence that _split_sentences produces is non-empty, and
\* _split_clauses returns for it at least one clause and no empty clause; when the
\* splitting leaves no non-empty fragment the result is the trimmed sentence alone.
C8_AtLeastOneClause ==
    (mode = "segment" /\ pc = "clauses") =>
        LET sentence == sentences[s_idx]
        IN  /\ sentence # << >>
            /\ Len(clauses) >= 1
            /\ \A k \in 1..Len(clauses) : clauses[k] # << >>
            /\ NoFragmentLeft(sentence) => clauses = << Strip(sentence) >>

\* a sentence made of a conjunction and separators only, returned whole
C8_Witness ==
    /\ mode = "segment" /\ pc = "clauses"
    /\ NoFragmentLeft(sentences[s_idx])
    /\ \E k \in 1..Len(sentences[s_idx]) : InConjunction(sentences[s_idx], k)
    /\ \E k \in 1..Len(sentences[s_idx]) : sentences[s_idx][k] \in CoarseSeparators
    /\ clauses = << sentences[s_idx] >>

\* the tokens among `tokens` that may become keyphrases, and how often each occurs
Qualifying(tokens) == { t \in Range(tokens) : Len(t) > 2 /\ t \notin STOPWORDS }
Frequency(tokens, t) == Cardinality({ k \in 1..Len(tokens) : tokens[k] = t })
\* the total order of the claim: descending frequency, then descending length,
\* then ascending lexical order
OrderedBefore(tokens, a, b) ==
    LET fa == Frequency(tokens, a)
        fb == Frequency(tokens, b)
    IN  IF fa # fb THEN fa > fb
        ELSE IF Len(a) # Len(b) THEN Len(a) > Len(b)
        ELSE StrLess(a, b)
\* `result` is the first n elements of the total order of the qualifying tokens
FirstOfOrder(tokens, n) ==
    /\ Len(result) = n
    /\ \A p \in 1..Len(result) : result[p] \in Qualifying(tokens)
    /\ \A p, q \in 1..Len(result) :
           p < q => OrderedBefore(tokens, result[p], result[q])
    /\ \A t \in Qualifying(tokens) \ Range(result) :
           \A p \in 1..Len(result) : OrderedBefore(tokens, result[p], t)
Smaller(a, b) == IF a < b THEN a ELSE b

\* C9 as claimed: for every limit value the result has at most `limit` phrases and
\* is the first `limit` elements of the total order (all of them if there are
\* fewer); no qualifying token gives the empty list.
C9_AtMostLimitForEveryLimit ==
    (mode = "keyphrases" /\ pc = "returned") =>
        LET tokens == _tokenize(text)
        IN  /\ Len(result) <= limit
            /\ FirstOfOrder(tokens, Smaller(limit, Cardinality(Qualifying(tokens))))
            /\ Qualifying(tokens) = {} => result = << >>

\* C9, amended: the same for every limit >= 0.
C9_AtMostLimit ==
    (mode = "keyphrases" /\ pc = "returned") =>
        LET tokens == _tokenize(text)
        IN  /\ limit >= 0 =>
                  /\ Len(result) <= limit
                  /\ FirstOfOrder(tokens, Smaller(limit, Cardinality(Qualifying(tokens))))
            /\ Qualifying(tokens) = {} => result = << >>

\* a cut that the lexical order decides (two tokens of one frequency and length,
\* one returned, one not), in a result whose order the length decides
C9_Witness ==
    /\ mode = "keyphrases" /\ pc = "returned"
    /\ limit >= 1
    /\ LET tokens == _tokenize(text)
       IN  /\ Cardinality(Qualifying(tokens)) > limit
           /\ \E a \in Range(result), b \in Qualifying(tokens) \ Range(result) :
                  Frequency(tokens, a) = Frequency(tokens, b) /\ Len(a) = Len(b)
           /\ \E a, b \in Range(result) :
                  Frequency(tokens, a) = Frequency(tokens, b) /\ Len(a) > Len(b)

\* C10: every token is a non-empty string of lower-case letters, digits and
\* apostrophes in which an apostrophe is neither the first nor the last character;
\* the empty text gives no token.
C10_ApostropheOnlyInside ==
    (mode = "tokenize" /\ pc = "returned") =>
        /\ \A k \in 1..Len(result) :
              /\ result[k] # << >>
              /\ \A m \in 1..Len(result[k]) :
                     result[k][m] \in LowerSet \cup DigitSet \cup { "'" }
              /\ result[k][1] # "'"
              /\ result[k][Len(result[k])] # "'"
        /\ text = << >> => result = << >>

\* load_trace has returned or raised
Loaded == mode = "load" /\ pc # "call"
\* what read_text gave load_trace, and the format the suffix selects
RawText == ReadText(input_path.content)
IsJsonl == Lower(input_path.suffix) = JsonlSuffix
IsJson == Lower(input_path.suffix) = JsonSuffix
IsTextForm == ~IsJsonl /\ ~IsJson
\* the non-blank lines of the document, stripped, and what they decode to
NonBlankLines ==
    LET lines == SplitLines(RawText)
    IN  SelectSeq([k \in 1..Len(lines) |-> Strip(lines[k])], LAMBDA line : line # << >>)
DecodedLines ==
    LET lines == NonBlankLines
    IN  [k \in 1..Len(lines) |-> JsonLoads(lines[k])]
\* the label "w" followed by a colon occurs in the document
HasLabel(w) == \E k \in 1..Len(RawText) : LabelEnd(RawText, k, w) # 0

\* C11: load_trace returns a trace or raises TraceParseError and nothing else,
\* whatever the document is; a JSONL document without a non-blank line and a text
\* document without the prompt or the response label raise TraceParseError.
C11_OnlyTraceParseError ==
    Loaded =>
        /\ loaded.raised \in { "", "TraceParseError" }
        /\ (IsJsonl /\ NonBlankLines = << >>) => loaded.raised = "TraceParseError"
        /\ (IsTextForm /\ (~HasLabel(PromptKey) \/ ~HasLabel(ResponseKey)))
               => loaded.raised = "TraceParseError"

\* the lines are JSON objects, and there is one
AllRecords(decoded) ==
    /\ decoded # << >>
    /\ \A k \in 1..Len(decoded) : decoded[k].ok /\ IsDict(decoded[k].value)
\* the objects the lines decode to
RecordsOf(decoded) == [k \in 1..Len(decoded) |-> decoded[k].value]
\* the records whose response is not empty, in record order
Answering(records) == SelectSeq(records, LAMBDA r : Truthy(Get(r, ResponseKey, JNull)))
\* the fields have the types of the format: the first prompt and the responses are
\* strings, the events are lists
WellTyped(records) ==
    /\ IsStr(Get(records[1], PromptKey, JStr(<< >>)))
    /\ \A r \in Range(Answering(records)) : IsStr(Get(r, ResponseKey, JNull))
    /\ \A r \in Range(records) : Get(r, EventsKey, JList(<< >>)).t = "list"
FirstPrompt(records) == Get(records[1], PromptKey, JStr(<< >>)).str
JoinedResponses(records) ==
    LET answering == Answering(records)
    IN  Join([k \in 1..Len(answering) |-> Get(answering[k], ResponseKey, JNull).str],
             << "\n" >>)
EventLists(records) ==
    [k \in 1..Len(records) |-> Get(records[k], EventsKey, JList(<< >>)).items]

\* C12 as claimed: for a JSONL document of one or more records (here: records
\* whose fields have the types of the format) load_trace returns the first record's
\* prompt as it stands, the non-empty responses joined by newlines and the events
\* lists concatenated; without a non-blank line it raises TraceParseError.
C12_MergedAsWritten ==
    (Loaded /\ IsJsonl) =>
        LET decoded == DecodedLines
            records == RecordsOf(decoded)
        IN  /\ (AllRecords(decoded) /\ WellTyped(records)) =>
                  /\ loaded.raised = ""
                  /\ loaded.trace.prompt = FirstPrompt(records)
                  /\ loaded.trace.response = JoinedResponses(records)
                  /\ loaded.trace.events = Concat(EventLists(records))
            /\ decoded = << >> => loaded.raised = "TraceParseError"

\* C12, amended: for a JSONL document of one or more records whose fields have the
\* types of the format, load_trace returns the first record's prompt stripped of
\* surrounding white space (empty when the first record has none), the non-empty
\* responses joined by newlines and then stripped, and the events lists
\* concatenated with every element that is not an object left out; without a
\* non-blank line it raises TraceParseError.
C12_MergedAndStripped ==
    (Loaded /\ IsJsonl) =>
        LET decoded == DecodedLines
            records == RecordsOf(decoded)
        IN  /\ (AllRecords(decoded) /\ WellTyped(records)) =>
                  /\ loaded.raised = ""
                  /\ loaded.trace.prompt = Strip(FirstPrompt(records))
                  /\ ~HasKey(records[1], PromptKey) => loaded.trace.prompt = << >>
                  /\ loaded.trace.response = Strip(JoinedResponses(records))
                  /\ loaded.trace.events =
                        SelectSeq(Concat(EventLists(records)), LAMBDA e : e.t = "dict")
            /\ decoded = << >> => loaded.raised = "TraceParseError"

\* two records merged: the first without a prompt, the second with one; two
\* responses joined; events of both, an element that is not an object left out
C12_Witness ==
    /\ Loaded /\ IsJsonl
    /\ LET decoded == DecodedLines
           records == RecordsOf(decoded)
       IN  /\ AllRecords(decoded) /\ WellTyped(records)
           /\ Len(records) = 2
           /\ ~HasKey(records[1], PromptKey) /\ HasKey(records[2], PromptKey)
           /\ Len(Answering(records)) = 2
           /\ Len(loaded.trace.events) = 2
           /\ Len(Concat(EventLists(records))) = 3


(***************************************************************************)
(* C13  TraceParseError from load_trace is fatal for the trace             *)
(***************************************************************************)
\* load_trace raised TraceParseError inside generate_geometry
ParseFailed == mode = "main" /\ loaded.raised = "TraceParseError"

\* C13: when load_trace raises TraceParseError inside generate_geometry, the
\* error reaches main as it was raised, the output directory is not created,
\* none of graph.json, metrics.json, graph.svg is written, no node or edge has
\* been built, and main returns 1.
C13_ParseErrorIsFatal ==
    ParseFailed =>
        /\ pc \in { "except", "returned" }
        /\ pc = "returned" => exit_code = 1
        /\ pc = "except" => exit_code = NotReturned
        /\ output_dir = NoDirectory
        /\ nodes = << >> /\ edges = << >> /\ metrics = << >>

\* a text trace without a response label was rejected and main has returned
C13_Witness ==
    /\ ParseFailed
    /\ pc = "returned" /\ exit_code = 1
    /\ input_path.exists
    /\ ~IsJsonl /\ ~IsJson
    /\ HasLabel(PromptKey)


(***************************************************************************)
(* C14  The builder is deterministic and keeps no state between calls      *)
(***************************************************************************)
\* the calls that have returned, the one that has just finished included
Completed ==
    IF Built THEN Append(runs, RunResult(trace, nodes, edges, metrics)) ELSE runs

\* C14: any two calls of build_thinking_geometry on the same trace, whatever
\* calls on other traces come between or before them, return the same graph
\* (nodes, ids, edges, weights) and the same metrics (values and the key order
\* of relation_breakdown).
C14_SameTraceSameResult ==
    \A a, b \in 1..Len(Completed) :
        Completed[a].trace = Completed[b].trace =>
            /\ Completed[a].graph = Completed[b].graph
            /\ Completed[a].metrics = Completed[b].metrics

\* the same trace was built twice with a call on another trace in between, and
\* the graph has relation edges of two kinds
C14_Witness ==
    /\ Len(Completed) = 3
    /\ Completed[1].trace = Completed[3].trace
    /\ Completed[2].trace # Completed[1].trace
    /\ Len(Completed[3].metrics.relation_breakdown) >= 3
    /\ Len(Completed[2].graph.nodes) > 0


(***************************************************************************)
(* C15  relation_entropy at its fixed points                               *)
(***************************************************************************)
Measured == mode = "metrics" /\ pc = "returned"
\* the relations that occur among the edges, and whether they occur equally often
Occurring == { r \in Relations : RelationCount(edges, r) > 0 }
Balanced == \A r, q \in Occurring : RelationCount(edges, r) = RelationCount(edges, q)

\* C15: relation_entropy is 0 when there are no edges and when every edge has
\* the same relation, 1 when two relations occur equally often, and 2 when
\* four relations occur equally often (values in ten-thousandths).
C15_EntropyFixedPoints ==
    Measured =>
        /\ Cardinality(Occurring) <= 1 => metrics.metrics.relation_entropy = 0
        /\ Cardinality(Occurring) = 2 /\ Balanced =>
               metrics.metrics.relation_entropy = 10000
        /\ Cardinality(Occurring) = 4 /\ Balanced =>
               metrics.metrics.relation_entropy = 20000

\* four edges, each with a relation of its own
C15_Witness ==
    /\ Measured
    /\ Len(edges) = 4
    /\ Cardinality(Occurring) = 4
    /\ metrics.metrics.relation_entropy = 20000


(***************************************************************************)
(* C16  run_loop(once=True) ends                                           *)
(***************************************************************************)
\* --once without --max-iterations
OnceUnbounded == mode = "flight" /\ once /\ max_iterations = 0

\* C16: run_loop called with once=True and max_iterations unset eventually
\* exits, whatever the stream directory holds at the start, nothing included.
C16_OnceTerminates == OnceUnbounded ~> pc = "exited"


(***************************************************************************)
(* C18  process_file routes every file to exactly one destination          *)
(***************************************************************************)
\* process_file returns in this step
Returning == mode = "flight" /\ pc = "judged" /\ pc' = "files"

\* what a call of process_file that returns in this step has done to the file
\* it was given: the label is the one of the content as read, the file has left
\* the stream directory and is, unchanged, either in the lift directory (label
\* LOW and grounded, no report) or in the glitch directory (with one new report
\* whose status is VETO_FAIL when not grounded and ENTROPY_HIGH when grounded)
RoutedAsClaimed ==
    LET name     == current.file
        content  == stream[name].content
        label    == current.entropy.label
        grounded == current.grounded
        here     == [there |-> TRUE, content |-> content]
    IN  /\ label = entropy(content).label
        /\ ~stream'[name].there
        /\ lift_protocols'[name].there # glitch_log'[name].there
        /\ lift_protocols'[name].there <=> (label = "LOW" /\ grounded)
        /\ label = "HIGH" => ~lift_protocols'[name].there
        /\ lift_protocols'[name].there =>
               /\ lift_protocols'[name] = here
               /\ reports' = reports
               /\ glitch_log' = glitch_log
        /\ glitch_log'[name].there =>
               /\ glitch_log'[name] = here
               /\ lift_protocols' = lift_protocols
               /\ Len(reports') = Len(reports) + 1
               /\ SubSeq(reports', 1, Len(reports)) = reports
               /\ reports'[Len(reports')].file = name
               /\ reports'[Len(reports')].status =
                      (IF ~grounded THEN "VETO_FAIL" ELSE "ENTROPY_HIGH")

\* C18: process_file removes the file from the stream directory and places it
\* in exactly one destination: the lift directory if and only if its entropy
\* label is LOW and the veto reports grounded, otherwise the glitch directory
\* with a failure report whose status is VETO_FAIL when not grounded and
\* ENTROPY_HIGH when grounded; a file labelled HIGH is never lifted and a lifted
\* file keeps its content.
C18_OneDestination == [][Returning => RoutedAsClaimed]_vars

\* one file was lifted, the other was rotated, found grounded and logged as
\* ENTROPY_HIGH
C18_Witness ==
    /\ mode = "flight"
    /\ \E a, b \in FileNames :
           /\ lift_protocols[a].there
           /\ glitch_log[b].there
           /\ ~stream[a].there /\ ~stream[b].there
    /\ Len(reports) = 1
    /\ reports[1].status = "ENTROPY_HIGH"
    /\ reports[1].torqued
    /\ Len(processed) = 2


(***************************************************************************)
(* C17  every state in the history is within the limits                    *)
(***************************************************************************)
\* a <= b and a >= b on floats
NotAbove(a, b) == ~a.nan /\ ~b.nan /\ a.v <= b.v
NotBelow(a, b) == ~a.nan /\ ~b.nan /\ a.v >= b.v

\* dist(vector, reference_signal) <= max_drift
DriftWithin(vector) ==
    /\ \A k \in 1..Len(vector) : ~vector[k].nan
    /\ SquaredDistance(vector, reference_signal, 1) <= max_drift * max_drift

\* C17: every state in engine.history has a vector as long as the reference
\* signal, a drift of at most max_drift, an entropy of at most max_entropy and
\* a coherence of at least min_coherence.
C17_HistoryWithinLimits ==
    mode = "engine" =>
        \A k \in 1..Len(history) :
            /\ Len(history[k].vector) = Len(reference_signal)
            /\ DriftWithin(history[k].vector)
            /\ NotAbove(history[k].entropy, Float(max_entropy))
            /\ NotBelow(history[k].coherence, Float(min_coherence))

====
